---- MODULE Spec2Model ----
(***************************************************************************)
(* The VDF engine of src/vdf/src/c_bindings/streamer.cpp as a state        *)
(* machine: one cpu_vdf_context, the worker thread running                 *)
(* vdf_computation_thread, and one caller thread issuing the C API calls   *)
(* one after the other.  Every handler is cut into the steps at which it   *)
(* reads or writes memory the other thread can see, so that the            *)
(* interleavings of the caller with the worker are those of the code.      *)
(***************************************************************************)
EXTENDS Integers, Naturals, Sequences, FiniteSets, TLC

(* ------------------------------ bounds -------------------------------- *)
\* largest iteration count a caller passes to start
MaxT == 3
\* number of starts that get as far as creating a thread
MaxRuns == 2
\* batch_size of the worker loop, scaled down from the source's 1000 so
\* that a run of MaxT iterations spans more than one batch
batch_size == 2
\* largest iteration count of the runs whose result is proved and verified
MaxProofT == 5
\* bits of the challenge hash (256 in the source, where the prime has 264)
HashBits == 3
\* calls of tick_init each thread makes
MaxTickCalls == 2

(* --------------------------- the class group --------------------------- *)
\* A form is the class generator(D)^e, held as the pair (D, e): e is the
\* exponent modulo the order of generator(D) in the class group of D.
FormOf(D, e) == [d |-> D, e |-> e]

\* a default-constructed form (struct cpu_vdf_context before any start)
NoForm == [d |-> 0, e |-> 0]

\* order of the class of generator(D) = (2, 1, (1-D)/8): h(-47) = 5 and
\* h(-71) = 7 are prime and the class is not principal
GroupOrder(D) == IF D = -47 THEN 5 ELSE IF D = -71 THEN 7 ELSE 1

\* form::generator(D)
generator(D) == FormOf(D, 1 % GroupOrder(D))

\* form::check_valid(D) of the generator: c = (1 - D) / 8 is an integer, and
\* b^2 - 4ac = D, only when D = 1 mod 8
check_valid(f, D) == f.d = D /\ D < 0 /\ D % 8 = 1

\* square(f): one NUDUPL doubling, f -> f^2
square(f) == FormOf(f.d, (2 * f.e) % GroupOrder(f.d))

\* n sequential squarings of f
RECURSIVE SquareN(_, _)
SquareN(f, n) == IF n = 0 THEN f ELSE SquareN(square(f), n - 1)

\* big-endian import of a byte string (mpz_import, order 1, size 1)
RECURSIVE BytesToInt(_)
BytesToInt(bs) ==
    IF Len(bs) = 0 THEN 0
    ELSE 256 * BytesToInt(SubSeq(bs, 1, Len(bs) - 1)) + bs[Len(bs)]

\* generate_discriminant(bits, seed): a negative prime discriminant, 1 mod 4,
\* fixed by the seed
generate_discriminant(seed) == IF seed % 2 = 1 THEN -47 ELSE -71

\* `(seed << 8) | byte` on a 32-bit int whose value is below 2^24: a set
\* top bit makes the result negative
ShiftIn(seed, byte) ==
    IF seed >= 8388608 THEN (seed - 16777216) * 256 + byte ELSE seed * 256 + byte

\* a seed loop that runs over five bytes of the challenge
ChallengeSeed_FiveBytes(ch) ==
    ShiftIn(ShiftIn(ShiftIn(ch[2], ch[3]), ch[4]), ch[5])

\* lines 399-402, 910-913, 944-947: int seed = first four bytes of the
\* challenge, big-endian
ChallengeSeed(ch) == ShiftIn(ShiftIn(ShiftIn(ShiftIn(0, ch[1]), ch[2]), ch[3]), ch[4])

\* the import and the negation alone, without the adjustment of 462-472
AdjustDiscriminant_NoAdjust(bs) == 0 - BytesToInt(bs)

\* the discriminant start_computation_with_discriminant ends with
AdjustDiscriminant(bs) ==
    LET D0 == 0 - BytesToInt(bs)
        mod_val == D0 % 4
        D1 == IF mod_val # 1 THEN D0 - mod_val + 1 ELSE D0
    IN  IF mod_val # 1 /\ D1 > 0 THEN D1 - 4 ELSE D1

(* ------------------- forms and integers as bytes ----------------------- *)
\* The coefficients (a, b, c) of the reduced form generator(D)^e, for the
\* two discriminants the model runs on: the powers of (2, 1, (1 - D) / 8)
\* under composition and reduction.
Coeffs(f) ==
    IF f.d = -47
    THEN << <<1, 1, 12>>, <<2, 1, 6>>, <<3, -1, 4>>, <<3, 1, 4>>, <<2, -1, 6>> >>[f.e + 1]
    ELSE IF f.d = -71
    THEN << <<1, 1, 18>>, <<2, 1, 9>>, <<4, -3, 5>>, <<3, 1, 6>>, <<3, -1, 6>>,
            <<4, 3, 5>>, <<2, -1, 9>> >>[f.e + 1]
    ELSE <<0, 0, 0>>

Abs(n) == IF n < 0 THEN -n ELSE n

\* b into (-a, a], keeping the discriminant
Normalize(t) ==
    LET a == t[1]  b == t[2]  c == t[3]
        r == (a - b) \div (2 * a)
    IN  IF -a < b /\ b <= a THEN t
        ELSE <<a, b + 2 * r * a, a * r * r + b * r + c>>

\* the reduced form equivalent to the positive definite form t
RECURSIVE Reduce(_)
Reduce(t) ==
    LET n == Normalize(t) IN
    IF n[1] > n[3] \/ (n[1] = n[3] /\ n[2] < 0)
    THEN Reduce(<<n[3], -n[2], n[1]>>)
    ELSE n

\* b^2 - 4ac = D, as form::check_valid tests it on coefficients
CoeffsValid(t, D) == t[2] * t[2] - 4 * t[1] * t[3] = D

\* the group element a valid coefficient triple of discriminant D stands for
ElementOf(t, D) ==
    LET red == Reduce(t) IN
    CHOOSE f \in {FormOf(D, e) : e \in 0 .. GroupOrder(D) - 1} : Coeffs(f) = red

\* mpz_export(.., 1, 1, 0, 0, n): the magnitude of n, big-endian, no byte
\* for zero; the sign of n is not exported
RECURSIVE ExportBytes(_)
ExportBytes(n) ==
    IF n = 0 THEN <<>>
    ELSE ExportBytes(Abs(n) \div 256) \o << Abs(n) % 256 >>

RECURSIVE Shr8(_, _)
Shr8(n, k) == IF k = 0 THEN n ELSE Shr8(n \div 256, k - 1)

\* the 8 bytes `(n >> (i * 8)) & 0xFF` for i = 7 .. 0
U64Bytes(n) == [k \in 1 .. 8 |-> Shr8(n, 8 - k) % 256]

\* add_integer: two bytes of length, then the magnitude
SizedInteger(n) ==
    LET bs == ExportBytes(n) IN << Len(bs) \div 256, Len(bs) % 256 >> \o bs

RECURSIVE Pow2(_)
Pow2(n) == IF n = 0 THEN 1 ELSE 2 * Pow2(n - 1)

\* FastPowFormNucomp(f, D, n, L, reducer): f^n
FastPow(f, n) == FormOf(f.d, (f.e * n) % GroupOrder(f.d))

\* operator* of two forms of one discriminant
Compose(f, g) == FormOf(f.d, (f.e + g.e) % GroupOrder(f.d))

IsPrime(n) == n > 1 /\ \A k \in 2 .. n - 1 : n % k # 0

\* NextPrime: the first prime at or above start, stepping over odd numbers
RECURSIVE NextPrimeFrom(_)
NextPrimeFrom(n) == IF IsPrime(n) THEN n ELSE NextPrimeFrom(n + 2)
NextPrime(start) == NextPrimeFrom(IF start % 2 = 0 THEN start + 1 ELSE start)

\* what serialize_form appends to the challenge data
ChallengeFormBytes(f) ==
    ExportBytes(Coeffs(f)[1]) \o ExportBytes(Coeffs(f)[2]) \o ExportBytes(Coeffs(f)[3])

\* lines 632-662: D, x, y and T as the hash reads them
ChallengeData(D, x, y, T) ==
    ExportBytes(D) \o ChallengeFormBytes(x) \o ChallengeFormBytes(y) \o U64Bytes(T)

\* h ^ x on 8-bit values, bit by bit
RECURSIVE XorBits(_, _, _)
XorBits(h, x, n) ==
    IF n = 0 THEN 0
    ELSE (((h % 2) + (x % 2)) % 2) + 2 * XorBits(h \div 2, x \div 2, n - 1)

\* h = (h << 1) | (h >> 7) on a uint8_t
Rotl8(h) == ((h * 2) % 256) + (h \div 128)

\* lines 83-88: byte i of the hash, the bytes data[j .. size-1] still to mix
\* into h (j counts from 0 as in the source)
RECURSIVE HashByte(_, _, _, _)
HashByte(data, i, j, h) ==
    IF j >= Len(data) THEN h
    ELSE HashByte(data, i, j + 1, Rotl8(XorBits(h, (data[j + 1] + i + j) % 256, 8)))

\* sha256 of the source mixes the data into 32 bytes, which mpz_import
\* reads big-endian; kept here are the low HashBits bits of that number,
\* which are bits of hash[31]
sha256(data) == HashByte(data, 31, 0, 31) % Pow2(HashBits)

\* lines 664-671: the Fiat-Shamir prime, the top bit set above the hash
\* (bit 263 in the source, bit HashBits here)
ChallengePrime(D, x, y, T) ==
    NextPrime(sha256(ChallengeData(D, x, y, T)) + Pow2(HashBits))

\* a serializer that writes the iteration count ahead of the recursion level
SerializeProof_LevelLast(recursion_level, T, l, pi) ==
    << 2 >> \o U64Bytes(T) \o << recursion_level >>
       \o << Len(ExportBytes(l)) >> \o ExportBytes(l)
       \o SizedInteger(Coeffs(pi)[1]) \o SizedInteger(Coeffs(pi)[2])
       \o SizedInteger(Coeffs(pi)[3])

\* lines 694-727: the blob generate_proof serializes for challenge prime l
\* and proof form pi
SerializeProof(recursion_level, T, l, pi) ==
    << 2, recursion_level >> \o U64Bytes(T)
       \o << Len(ExportBytes(l)) >> \o ExportBytes(l)
       \o SizedInteger(Coeffs(pi)[1]) \o SizedInteger(Coeffs(pi)[2])
       \o SizedInteger(Coeffs(pi)[3])

\* lines 630-727 of cpu_vdf_generate_proof on a context holding D, x, y, T
ProofBlob(D, x, y, T, recursion_level) ==
    LET l == ChallengePrime(D, x, y, T) IN
    SerializeProof(recursion_level, T, l, FastPow(x, Pow2(T) \div l))

(* ----------------------- generate_checkpoint_proof --------------------- *)
\* add_form (lines 192-203): the three coefficients, each with its 2-byte size
SizedForm(f) ==
    SizedInteger(Coeffs(f)[1]) \o SizedInteger(Coeffs(f)[2]) \o SizedInteger(Coeffs(f)[3])

\* lines 118-160 and 162-179: the challenge prime and the proof form of the
\* segment from start_form to end_form
SegmentPrime(start_form, end_form, iterations, D) ==
    ChallengePrime(D, start_form, end_form, iterations)
SegmentProofForm(start_form, end_form, iterations, D) ==
    FastPow(start_form,
            Pow2(iterations) \div SegmentPrime(start_form, end_form, iterations, D))

\* lines 183-216: serialized_proof of the record generate_checkpoint_proof
\* returns for (start_form, end_form, iterations, discriminant)
SerializeCheckpoint(start_form, end_form, iterations, D) ==
    LET l == SegmentPrime(start_form, end_form, iterations, D) IN
    << 3 >> \o U64Bytes(iterations)
       \o SizedForm(end_form)
       \o SizedForm(SegmentProofForm(start_form, end_form, iterations, D))
       \o << Len(ExportBytes(l)) >> \o ExportBytes(l)

\* serialized_proof of a record of ctx->checkpoint_proofs: the sentinel has
\* the one byte 0x04 (line 247), a record without proof has none (287-290)
serialized_proof(cp) ==
    IF cp.version = 4 THEN << 4 >>
    ELSE IF cp.version = 3
         THEN SerializeCheckpoint(cp.x, cp.checkpoint_form, cp.blob_iter, cp.d)
         ELSE << >>

(* --------------------------- cpu_vdf_verify_proof ---------------------- *)
\* *ptr at 1-based position k; past the end of the buffer the read yields
\* whatever the memory holds (0 here)
ByteAt(blob, k) == IF k <= Len(blob) THEN blob[k] ELSE 0

BytesAt(blob, from, n) == [k \in 1 .. n |-> ByteAt(blob, from + k - 1)]

\* HeaderOk without the test of the version byte
HeaderOk_NoVersion(blob, T, recursion_level) ==
    /\ Len(blob) >= 2 /\ blob[2] = recursion_level
    /\ Len(blob) >= 10 /\ SubSeq(blob, 3, 10) = U64Bytes(T)

\* lines 790-801: version, recursion level and the 8 bytes of T (two
\* 64-bit numbers are equal exactly when their 8-byte encodings are)
HeaderOk(blob, T, recursion_level) ==
    /\ Len(blob) >= 1 /\ blob[1] = 2
    /\ Len(blob) >= 2 /\ blob[2] = recursion_level
    /\ Len(blob) >= 10 /\ SubSeq(blob, 3, 10) = U64Bytes(T)

\* read_integer without `if (ptr + size > end) return false`
ReadInteger_NoBound(blob, p) ==
    IF (p - 1) + 2 > Len(blob) THEN [ok |-> FALSE, val |-> 0, next |-> p, read_to |-> p - 1]
    ELSE LET size == blob[p] * 256 + blob[p + 1] IN
         [ok |-> TRUE, val |-> BytesToInt(BytesAt(blob, p + 2, size)),
          next |-> p + 2 + size, read_to |-> p + 1 + size]

\* lines 813-821: read_integer with ptr at position p; read_to is the last
\* position it reads
ReadInteger(blob, p) ==
    IF (p - 1) + 2 > Len(blob) THEN [ok |-> FALSE, val |-> 0, next |-> p, read_to |-> p - 1]
    ELSE LET size == blob[p] * 256 + blob[p + 1] IN
         IF (p + 1) + size > Len(blob)
         THEN [ok |-> FALSE, val |-> 0, next |-> p + 2, read_to |-> p + 1]
         ELSE [ok |-> TRUE, val |-> BytesToInt(BytesAt(blob, p + 2, size)),
               next |-> p + 2 + size, read_to |-> p + 1 + size]

NoParse(read_to) ==
    [ok |-> FALSE, l |-> 0, a |-> 0, b |-> 0, c |-> 0, read_to |-> read_to]

\* lines 803-832: l and the three coefficients of the proof form, read
\* after a header that passed
ParseProof(blob) ==
    IF 10 >= Len(blob) THEN NoParse(10)
    ELSE LET l_size == blob[11] IN
         IF 11 + l_size > Len(blob) THEN NoParse(11)
         ELSE LET l == BytesToInt(BytesAt(blob, 12, l_size))
                  ra == ReadInteger(blob, 12 + l_size)
                  rb == ReadInteger(blob, ra.next)
                  rc == ReadInteger(blob, rb.next)
              IN  IF ~ra.ok THEN NoParse(ra.read_to)
                  ELSE IF ~rb.ok THEN NoParse(rb.read_to)
                  ELSE IF ~rc.ok THEN NoParse(rc.read_to)
                  ELSE [ok |-> TRUE, l |-> l, a |-> ra.val, b |-> rb.val,
                        c |-> rc.val, read_to |-> rc.read_to]

\* lines 834-837: the discriminant verify_proof computes over
VerifierDiscriminant(disc_bytes) == 0 - BytesToInt(disc_bytes)

\* lines 834-891 on a parsed proof: "crash" is mpz_mod dividing by l = 0
VerifyParsed(disc_bytes, pr, T) ==
    LET D == VerifierDiscriminant(disc_bytes)
        x == generator(D)
        t == <<pr.a, pr.b, pr.c>>
    IN  IF ~CoeffsValid(t, D) THEN "false"
        ELSE IF pr.l = 0 THEN "crash"
        ELSE LET y == SquareN(x, T)
                 r == Pow2(T) % pr.l
                 lhs == Compose(FastPow(ElementOf(t, D), pr.l), FastPow(x, r))
             IN  IF Coeffs(lhs) = Coeffs(y) THEN "true" ELSE "false"

\* the last position of the blob the checks of lines 780-832 read
LastByteRead(blob, T, recursion_level) ==
    IF Len(blob) < 10 THEN 0
    ELSE IF ~HeaderOk(blob, T, recursion_level) THEN 10
    ELSE ParseProof(blob).read_to

\* cpu_vdf_verify_proof(discriminant_bytes, size, NULL, proof, T, level)
verify_proof(disc_bytes, blob, T, recursion_level) ==
    IF Len(blob) < 10 THEN "false"
    ELSE IF ~HeaderOk(blob, T, recursion_level) THEN "false"
    ELSE IF ~ParseProof(blob).ok THEN "false"
    ELSE VerifyParsed(disc_bytes, ParseProof(blob), T)

\* lines 909-924: the bytes verify_proof_with_challenge hands to verify_proof
ChallengeDiscBytes(ch) == ExportBytes(Abs(generate_discriminant(ChallengeSeed(ch))))

\* cpu_vdf_verify_proof_with_challenge(challenge, bits, NULL, proof, T, level)
verify_proof_with_challenge(ch, blob, T, recursion_level) ==
    verify_proof(ChallengeDiscBytes(ch), blob, T, recursion_level)

\* lines 943-952: the bytes create_discriminant exports
CreatedDiscriminantBytes(ch) == ExportBytes(generate_discriminant(ChallengeSeed(ch)))

(* ------------------------------ inputs --------------------------------- *)
\* a challenge is given by its first four bytes; <<69>> is adjusted to -71
Challenges == { <<0, 0, 0, 1>> }
DiscInputs == { <<>>, <<3>>, <<69>> }
Iterations == 0 .. MaxT
SegmentSizes == {0, 2}

Terminal == {"COMPLETED", "ERROR", "STOPPED"}
RecursionLevels == {0, 1}
\* challenge primes a forger may put into a blob
ForgedPrimes == {3, 5, 7, 11}

(* ------------------------------- state --------------------------------- *)
VARIABLES
    \* struct cpu_vdf_context
    segment_size,               \* config.segment_size
    state,                      \* atomic cpu_vdf_state_t
    current_iteration,          \* atomic
    target_iterations,
    discriminant,
    initial_form,
    current_form,
    final_form,
    joinable,                   \* computation_thread.joinable()
    should_stop,                \* atomic
    mutex,                      \* "free", "caller" or "worker"
    checkpoint_proofs,          \* sequence of checkpoint records
    checkpoint_interval,
    store_checkpoints,
    generate_streaming_proofs,
    progress_cb,                \* "none" (nullptr) or what the callback does
    completion_cb,
    update_interval_ms,
    \* the worker thread: position and locals of vdf_computation_thread
    wpc,
    current,
    last_checkpoint,
    last_checkpoint_iter,
    completed_iterations,
    batch_end,
    i,
    elapsed,                    \* ms since last_update_time, as measured at line 301
    \* the caller thread: position, the call in progress, its return value,
    \* and what the call wrote to its out-parameters
    cpc,
    call,
    ret,
    out,
    \* bookkeeping of the execution (not fields of the program)
    crashed,                    \* std::terminate was called
    nlive,                      \* worker threads created and not yet returned
    runs,                       \* threads created so far
    phase_run,                  \* the run whose worker last stored `state`
    failed,                     \* a squaring threw in the current run
    stop_fence,                 \* stop returned and no start was made since
    saw_completed,              \* the caller loaded state = COMPLETED since the last start
    started,                    \* the call that launched the last run, and the
                                \* initial form and T its worker set out with
    squarings_after_stop,       \* squarings made since should_stop became true
    cb_log,                     \* the callback invocations of the last run
    \* tick.cpp
    g_initialized,              \* static bool g_initialized
    tick_pc,                    \* where each thread is inside tick_init
    tick_calls,                 \* calls of tick_init each thread has made
    init_gmp_runs,              \* executions of init_gmp()
    set_rounding_mode_runs      \* executions of set_rounding_mode()

ctxVars == << segment_size, state, current_iteration, target_iterations,
              discriminant, initial_form, current_form, final_form, joinable,
              should_stop, mutex, checkpoint_proofs, checkpoint_interval,
              store_checkpoints, generate_streaming_proofs, progress_cb,
              completion_cb, update_interval_ms >>
workerVars == << wpc, current, last_checkpoint, last_checkpoint_iter,
                 completed_iterations, batch_end, i, elapsed >>
callerVars == << cpc, call, ret, out >>
ghostVars == << crashed, nlive, runs, phase_run, failed, stop_fence, saw_completed,
               started, squarings_after_stop, cb_log >>
tickVars == << g_initialized, tick_pc, tick_calls, init_gmp_runs,
              set_rounding_mode_runs >>
vars == << ctxVars, workerVars, callerVars, ghostVars, tickVars >>

\* the threads that call tick_init
TickThreads == {1, 2}

NoCall == [op |-> "none", kind |-> "none", T |-> 0, bytes |-> <<>>, timeout |-> 0,
           recursion_level |-> 0, proof |-> <<>>, progress_cb |-> "none",
           completion_cb |-> "none", start_iteration |-> 0, end_iteration |-> 0,
           num_proofs |-> 0, bits |-> 0, out_size |-> 0,
           update_interval_ms |-> 0]
NoOut == [iter |-> 0, T |-> 0, state |-> "IDLE", run |-> 0, complete |-> FALSE,
          form |-> NoForm, count |-> 0, proof |-> <<>>, is_valid |-> FALSE,
          recursion_level |-> 0, proofs |-> <<>>, bytes |-> <<>>]

Init ==
    /\ segment_size \in SegmentSizes
    /\ state = "IDLE"
    /\ current_iteration = 0
    /\ target_iterations = 0
    /\ discriminant = 0
    /\ initial_form = NoForm
    /\ current_form = NoForm
    /\ final_form = NoForm
    /\ joinable = FALSE
    /\ should_stop = FALSE
    /\ mutex = "free"
    /\ checkpoint_proofs = <<>>
    /\ checkpoint_interval = 0
    /\ store_checkpoints = FALSE
    /\ generate_streaming_proofs = FALSE
    /\ progress_cb = "none"
    /\ completion_cb = "none"
    /\ update_interval_ms = 1000
    /\ wpc = "none"
    /\ current = NoForm
    /\ last_checkpoint = NoForm
    /\ last_checkpoint_iter = 0
    /\ completed_iterations = 0
    /\ batch_end = 0
    /\ i = 0
    /\ elapsed = 0
    /\ cpc = "ready"
    /\ call = NoCall
    /\ ret = "none"
    /\ out = NoOut
    /\ crashed = FALSE
    /\ nlive = 0
    /\ runs = 0
    /\ phase_run = 0
    /\ failed = FALSE
    /\ stop_fence = FALSE
    /\ squarings_after_stop = 0
    /\ cb_log = << >>
    /\ saw_completed = FALSE
    /\ started = [f0 |-> NoForm, T |-> 0, kind |-> "none"]
    /\ g_initialized = FALSE
    /\ tick_pc = [t \in TickThreads |-> "idle"]
    /\ tick_calls = [t \in TickThreads |-> 0]
    /\ init_gmp_runs = 0
    /\ set_rounding_mode_runs = 0

Min(a, b) == IF a < b THEN a ELSE b

\* the caller's call returns r
Return(r) ==
    /\ cpc' = "ready"
    /\ ret' = r
    /\ call' = [NoCall EXCEPT !.op = call.op, !.kind = call.kind]

\* the caller's call goes on at pc
Goto(pc) == cpc' = pc /\ ret' = ret /\ call' = call

(* ------------------- vdf_computation_thread (worker) ------------------- *)
\* what a registered callback does: "plain" returns at once, "reentrant"
\* calls cpu_vdf_get_checkpoint_count on the engine, which takes the mutex
CallbackKinds == {"plain", "reentrant"}
\* update_interval_ms a client passes to set_callbacks
UpdateIntervals == {0, 1}
\* milliseconds between last_update_time and the end of a batch
ElapsedMs == {0, 1}

\* an invocation of progress_cb or completion_cb as the worker makes it:
\* the arguments, and current_iteration, state and the owner of the mutex
\* at the time of the call
Invocation(cb, success, iterations) ==
    [cb |-> cb, success |-> success, iterations |-> iterations,
     total |-> target_iterations, t_cur |-> current_iteration, phase |-> state,
     locked |-> (mutex = "worker")]

\* line 342 as an entry of the log
Notified ==
    [cb |-> "notify", success |-> FALSE, iterations |-> 0, total |-> 0,
     t_cur |-> 0, phase |-> state, locked |-> FALSE]

\* the callback body can run: a reentrant callback locks the mutex, reads
\* the count and unlocks, which a thread that holds the mutex never finishes
CallbackRuns(kind) == kind = "reentrant" => mutex = "free"

\* a record of ctx->checkpoint_proofs: the absolute iteration, the form at
\* CheckpointProof that keeps the iteration generate_checkpoint_proof set
\* (line 112, the length of the segment) instead of the absolute one of
\* line 280
CheckpointProof_Relative(iter, f, ver, blob_iter, x) ==
    [iteration |-> blob_iter, checkpoint_form |-> f, version |-> ver,
     blob_iter |-> blob_iter, x |-> x, d |-> IF ver = 3 THEN discriminant ELSE 0]

\* it, the first byte of serialized_proof (0 when it is empty), the 8-byte
\* iteration field of the blob, the form the segment proof starts from and
\* the discriminant generate_checkpoint_proof was given (ctx->discriminant,
\* line 276)
CheckpointProof(iter, f, ver, blob_iter, x) ==
    [iteration |-> iter, checkpoint_form |-> f, version |-> ver,
     blob_iter |-> blob_iter, x |-> x, d |-> IF ver = 3 THEN discriminant ELSE 0]

\* line 225: the worker, not start, stores COMPUTING
WStoreComputing ==
    /\ ~crashed /\ wpc = "w_start"
    /\ state' = "COMPUTING"
    /\ phase_run' = runs
    /\ wpc' = "w_init"
    /\ UNCHANGED << segment_size, current_iteration, target_iterations, discriminant,
                    initial_form, current_form, final_form, joinable, should_stop,
                    mutex, checkpoint_proofs, checkpoint_interval, store_checkpoints,
                    generate_streaming_proofs, progress_cb,
                    completion_cb, update_interval_ms >>
    /\ UNCHANGED << current, last_checkpoint, last_checkpoint_iter,
                    completed_iterations, batch_end, i, elapsed >>
    /\ UNCHANGED << callerVars, crashed, nlive, tickVars, runs, failed, stop_fence, squarings_after_stop, cb_log, saw_completed,
                    started >>

\* lines 230-250: the locals, the checkpoint interval and the sentinel
\* record, which is pushed without the mutex
WInit ==
    /\ ~crashed /\ wpc = "w_init"
    /\ current' = initial_form
    /\ last_checkpoint' = initial_form
    /\ last_checkpoint_iter' = 0
    /\ completed_iterations' = 0
    /\ IF store_checkpoints /\ target_iterations > 0
       THEN /\ checkpoint_interval' = (IF segment_size > 0 THEN segment_size ELSE 65536)
            /\ checkpoint_proofs' =
                 IF generate_streaming_proofs
                 THEN Append(checkpoint_proofs,
                             CheckpointProof(0, initial_form, 4, 0, initial_form))
                 ELSE checkpoint_proofs
       ELSE UNCHANGED << checkpoint_interval, checkpoint_proofs >>
    /\ wpc' = "w_outer"
    /\ started' = [started EXCEPT !.f0 = initial_form, !.T = target_iterations]
    /\ UNCHANGED << segment_size, state, current_iteration, target_iterations,
                    discriminant, initial_form, current_form, final_form, joinable,
                    should_stop, mutex, store_checkpoints, generate_streaming_proofs, progress_cb,
                    completion_cb, update_interval_ms >>
    /\ UNCHANGED << batch_end, i, elapsed >>
    /\ UNCHANGED << callerVars, crashed, nlive, tickVars, runs, phase_run, failed, stop_fence, squarings_after_stop, cb_log,
                    saw_completed >>

\* line 252-254: the test of the outer loop and the bounds of the batch
WOuter ==
    /\ ~crashed /\ wpc = "w_outer"
    /\ IF completed_iterations < target_iterations /\ ~should_stop
       THEN /\ batch_end' = Min(completed_iterations + batch_size, target_iterations)
            /\ i' = 0
            /\ wpc' = "w_inner"
            /\ UNCHANGED elapsed
       ELSE /\ wpc' = "w_final"
            /\ UNCHANGED << batch_end, i, elapsed >>
    /\ UNCHANGED << current, last_checkpoint, last_checkpoint_iter, completed_iterations >>
    /\ UNCHANGED << ctxVars, callerVars, ghostVars, tickVars >>

\* line 257: the test of the inner loop, which loads should_stop
\* WInner without the load of should_stop
WInner_NoStopCheck ==
    /\ ~crashed /\ wpc = "w_inner"
    /\ wpc' = IF i < batch_end - completed_iterations THEN "w_square" ELSE "w_batch"
    /\ UNCHANGED << current, last_checkpoint, last_checkpoint_iter,
                    completed_iterations, batch_end, i, elapsed >>
    /\ UNCHANGED << ctxVars, callerVars, ghostVars, tickVars >>

\* line 257: the loop test, with its load of should_stop
WInner ==
    /\ ~crashed /\ wpc = "w_inner"
    /\ wpc' = IF i < batch_end - completed_iterations /\ ~should_stop
              THEN "w_square" ELSE "w_batch"
    /\ UNCHANGED << current, last_checkpoint, last_checkpoint_iter,
                    completed_iterations, batch_end, i, elapsed >>
    /\ UNCHANGED << ctxVars, callerVars, ghostVars, tickVars >>

\* AtCheckpoint without `current_iter == ctx->target_iterations`
AtCheckpoint_NoFinal(it) ==
    /\ store_checkpoints
    /\ checkpoint_interval > 0
    /\ it % checkpoint_interval = 0

\* does iteration it get a checkpoint record (lines 263-267)
AtCheckpoint(it) ==
    /\ store_checkpoints
    /\ checkpoint_interval > 0
    /\ (it % checkpoint_interval = 0 \/ it = target_iterations)

\* lines 259-260: one squaring, then the store of current_iteration
WSquare ==
    /\ ~crashed /\ wpc = "w_square"
    /\ current' = square(current)
    /\ current_iteration' = completed_iterations + i + 1
    /\ IF AtCheckpoint(completed_iterations + i + 1)
       THEN wpc' = "w_checkpoint" /\ i' = i
       ELSE wpc' = "w_inner" /\ i' = i + 1
    /\ UNCHANGED << last_checkpoint, last_checkpoint_iter, completed_iterations, batch_end >>
    /\ UNCHANGED << segment_size, state, target_iterations, discriminant, initial_form,
                    current_form, final_form, joinable, should_stop, mutex,
                    checkpoint_proofs, checkpoint_interval, store_checkpoints,
                    generate_streaming_proofs, progress_cb,
                    completion_cb, update_interval_ms >>
    /\ squarings_after_stop' =
         (IF should_stop THEN squarings_after_stop + 1 ELSE squarings_after_stop)
    /\ UNCHANGED cb_log
    /\ UNCHANGED << callerVars, crashed, nlive, tickVars, runs, phase_run, failed, stop_fence,
                    saw_completed, started >>
    /\ UNCHANGED elapsed

\* square throws: control goes to the catch block of line 333
WSquareThrows ==
    /\ ~crashed /\ wpc = "w_square"
    /\ failed' = TRUE
    /\ wpc' = "w_catch"
    /\ UNCHANGED << current, last_checkpoint, last_checkpoint_iter,
                    completed_iterations, batch_end, i, elapsed >>
    /\ UNCHANGED << ctxVars, callerVars, crashed, nlive, tickVars, runs, phase_run,
                    stop_fence, squarings_after_stop, cb_log, saw_completed, started >>

\* WCheckpoint without the update of lines 283-284
WCheckpoint_StaleLast ==
    /\ ~crashed /\ wpc = "w_checkpoint"
    /\ mutex = "free"
    /\ LET current_iter == completed_iterations + i + 1 IN
       IF generate_streaming_proofs
       THEN /\ checkpoint_proofs' =
                 Append(checkpoint_proofs,
                        CheckpointProof(current_iter, current, 3,
                                        current_iter - last_checkpoint_iter,
                                        last_checkpoint))
            /\ UNCHANGED << last_checkpoint, last_checkpoint_iter >>
       ELSE /\ checkpoint_proofs' =
                 Append(checkpoint_proofs,
                        CheckpointProof(current_iter, current, 0, 0, NoForm))
            /\ UNCHANGED << last_checkpoint, last_checkpoint_iter >>
    /\ i' = i + 1
    /\ wpc' = "w_inner"
    /\ UNCHANGED << current, completed_iterations, batch_end >>
    /\ UNCHANGED << segment_size, state, current_iteration, target_iterations,
                    discriminant, initial_form, current_form, final_form, joinable,
                    should_stop, mutex, checkpoint_interval, store_checkpoints,
                    generate_streaming_proofs, progress_cb,
                    completion_cb, update_interval_ms >>
    /\ UNCHANGED << callerVars, ghostVars, tickVars >>
    /\ UNCHANGED elapsed

\* lines 269-292: under the mutex, append the record of this iteration
WCheckpoint ==
    /\ ~crashed /\ wpc = "w_checkpoint"
    /\ mutex = "free"
    /\ LET current_iter == completed_iterations + i + 1 IN
       IF generate_streaming_proofs
       THEN /\ checkpoint_proofs' =
                 Append(checkpoint_proofs,
                        CheckpointProof(current_iter, current, 3,
                                        current_iter - last_checkpoint_iter,
                                        last_checkpoint))
            /\ last_checkpoint' = current
            /\ last_checkpoint_iter' = current_iter
       ELSE /\ checkpoint_proofs' =
                 Append(checkpoint_proofs,
                        CheckpointProof(current_iter, current, 0, 0, NoForm))
            /\ UNCHANGED << last_checkpoint, last_checkpoint_iter >>
    /\ i' = i + 1
    /\ wpc' = "w_inner"
    /\ UNCHANGED << current, completed_iterations, batch_end >>
    /\ UNCHANGED << segment_size, state, current_iteration, target_iterations,
                    discriminant, initial_form, current_form, final_form, joinable,
                    should_stop, mutex, checkpoint_interval, store_checkpoints,
                    generate_streaming_proofs, progress_cb,
                    completion_cb, update_interval_ms >>
    /\ UNCHANGED << callerVars, ghostVars, tickVars >>
    /\ UNCHANGED elapsed

\* lines 297-303: the batch is counted as done, whether or not the inner
\* loop ran to its end; the time since the last update is measured and
\* compared with update_interval_ms
WBatchEnd ==
    /\ ~crashed /\ wpc = "w_batch"
    /\ completed_iterations' = batch_end
    /\ \E ms \in ElapsedMs :
         IF ms >= update_interval_ms
         THEN elapsed' = ms /\ wpc' = "w_refresh"
         ELSE elapsed' = 0 /\ wpc' = "w_outer"
    /\ UNCHANGED << current, last_checkpoint, last_checkpoint_iter, batch_end, i >>
    /\ UNCHANGED << ctxVars, callerVars, ghostVars, tickVars >>

\* lines 304-308: iterations_per_second = (iterations_in_batch * 1000) /
\* elapsed.count(); an integer division by zero traps or yields some value,
\* as the platform has it.  Then the test of progress_cb.
WRefresh ==
    /\ ~crashed /\ wpc = "w_refresh"
    /\ IF elapsed = 0
       THEN \E traps \in BOOLEAN : crashed' = traps
       ELSE UNCHANGED crashed
    /\ elapsed' = 0
    /\ wpc' = IF progress_cb # "none" THEN "w_progress_cb" ELSE "w_outer"
    /\ UNCHANGED << current, last_checkpoint, last_checkpoint_iter,
                    completed_iterations, batch_end, i >>
    /\ UNCHANGED << ctxVars, callerVars, nlive, tickVars, runs, phase_run, failed,
                    stop_fence, saw_completed, started, squarings_after_stop, cb_log >>

\* line 309: progress_cb(completed_iterations, target_iterations, user_data)
WProgressCallback ==
    /\ ~crashed /\ wpc = "w_progress_cb"
    /\ CallbackRuns(progress_cb)
    /\ cb_log' = Append(cb_log, Invocation("progress", FALSE, completed_iterations))
    /\ wpc' = "w_outer"
    /\ UNCHANGED << current, last_checkpoint, last_checkpoint_iter,
                    completed_iterations, batch_end, i, elapsed >>
    /\ UNCHANGED << ctxVars, callerVars, crashed, nlive, tickVars, runs, phase_run, failed,
                    stop_fence, saw_completed, started, squarings_after_stop >>

\* line 314: the load of should_stop that picks the terminal phase
WFinal ==
    /\ ~crashed /\ wpc = "w_final"
    /\ wpc' = IF ~should_stop THEN "w_complete" ELSE "w_stopped"
    /\ UNCHANGED << current, last_checkpoint, last_checkpoint_iter,
                    completed_iterations, batch_end, i, elapsed >>
    /\ UNCHANGED << ctxVars, callerVars, ghostVars, tickVars >>

\* lines 316-319: take the mutex, publish the final form, store COMPLETED
WComplete ==
    /\ ~crashed /\ wpc = "w_complete"
    /\ mutex = "free"
    /\ mutex' = "worker"
    /\ final_form' = current
    /\ current_form' = current
    /\ state' = "COMPLETED"
    /\ phase_run' = runs
    /\ wpc' = "w_completed_cb"
    /\ UNCHANGED << segment_size, current_iteration, target_iterations, discriminant,
                    initial_form, joinable, should_stop, checkpoint_proofs,
                    checkpoint_interval, store_checkpoints, generate_streaming_proofs, progress_cb,
                    completion_cb, update_interval_ms >>
    /\ UNCHANGED << current, last_checkpoint, last_checkpoint_iter,
                    completed_iterations, batch_end, i, elapsed >>
    /\ UNCHANGED << callerVars, crashed, nlive, tickVars, runs, failed, stop_fence, squarings_after_stop, cb_log, saw_completed,
                    started >>

\* lines 321-323: completion_cb(true, completed_iterations, user_data) with
\* the mutex still held, then the lock_guard goes out of scope
WCompletedCallback ==
    /\ ~crashed /\ wpc = "w_completed_cb"
    /\ IF completion_cb = "none"
       THEN UNCHANGED cb_log
       ELSE /\ CallbackRuns(completion_cb)
            /\ cb_log' = Append(cb_log, Invocation("completion", TRUE,
                                                    completed_iterations))
    /\ mutex' = "free"
    /\ wpc' = "w_notify"
    /\ UNCHANGED << segment_size, state, current_iteration, target_iterations,
                    discriminant, initial_form, current_form, final_form, joinable,
                    should_stop, checkpoint_proofs, checkpoint_interval,
                    store_checkpoints, generate_streaming_proofs, progress_cb,
                    completion_cb, update_interval_ms >>
    /\ UNCHANGED << current, last_checkpoint, last_checkpoint_iter,
                    completed_iterations, batch_end, i, elapsed >>
    /\ UNCHANGED << callerVars, crashed, nlive, tickVars, runs, phase_run, failed, stop_fence,
                    saw_completed, started, squarings_after_stop >>

\* a store of a terminal phase made without the mutex; a registered
\* completion callback is called next
StorePhase(pc, phase) ==
    /\ ~crashed /\ wpc = pc
    /\ state' = phase
    /\ phase_run' = runs
    /\ wpc' = IF completion_cb = "none" THEN "w_notify"
              ELSE IF phase = "STOPPED" THEN "w_stopped_cb" ELSE "w_error_cb"
    /\ UNCHANGED << segment_size, current_iteration, target_iterations, discriminant,
                    initial_form, current_form, final_form, joinable, should_stop,
                    mutex, checkpoint_proofs, checkpoint_interval, store_checkpoints,
                    generate_streaming_proofs, progress_cb,
                    completion_cb, update_interval_ms >>
    /\ UNCHANGED << current, last_checkpoint, last_checkpoint_iter,
                    completed_iterations, batch_end, i, elapsed >>
    /\ UNCHANGED << callerVars, crashed, nlive, tickVars, runs, failed, stop_fence, squarings_after_stop, cb_log, saw_completed,
                    started >>

\* WStopped without the store of line 326
WStopped_NoStore ==
    /\ ~crashed /\ wpc = "w_stopped"
    /\ wpc' = "w_notify"
    /\ UNCHANGED << current, last_checkpoint, last_checkpoint_iter,
                    completed_iterations, batch_end, i, elapsed >>
    /\ UNCHANGED << ctxVars, callerVars, ghostVars, tickVars >>

\* lines 326-330: the run was stopped
WStopped == StorePhase("w_stopped", "STOPPED")

\* WCatch without the store of line 335
WCatch_NoStore ==
    /\ ~crashed /\ wpc = "w_catch"
    /\ wpc' = IF completion_cb = "none" THEN "w_notify" ELSE "w_error_cb"
    /\ UNCHANGED << current, last_checkpoint, last_checkpoint_iter,
                    completed_iterations, batch_end, i, elapsed >>
    /\ UNCHANGED << ctxVars, callerVars, ghostVars, tickVars >>

\* lines 333-339: the catch block
WCatch == StorePhase("w_catch", "ERROR")

\* completion_cb(false, iterations, user_data), called without the mutex
CompletionCallback(pc, iterations) ==
    /\ ~crashed /\ wpc = pc
    /\ CallbackRuns(completion_cb)
    /\ cb_log' = Append(cb_log, Invocation("completion", FALSE, iterations))
    /\ wpc' = "w_notify"
    /\ UNCHANGED << current, last_checkpoint, last_checkpoint_iter,
                    completed_iterations, batch_end, i, elapsed >>
    /\ UNCHANGED << ctxVars, callerVars, crashed, nlive, tickVars, runs, phase_run, failed,
                    stop_fence, saw_completed, started, squarings_after_stop >>

\* WStoppedCallback that reports success
WStoppedCallback_Success ==
    /\ ~crashed /\ wpc = "w_stopped_cb"
    /\ CallbackRuns(completion_cb)
    /\ cb_log' = Append(cb_log, Invocation("completion", TRUE, completed_iterations))
    /\ wpc' = "w_notify"
    /\ UNCHANGED << current, last_checkpoint, last_checkpoint_iter,
                    completed_iterations, batch_end, i, elapsed >>
    /\ UNCHANGED << ctxVars, callerVars, crashed, nlive, tickVars, runs, phase_run, failed,
                    stop_fence, saw_completed, started, squarings_after_stop >>

\* lines 328-330
WStoppedCallback == CompletionCallback("w_stopped_cb", completed_iterations)

\* lines 337-339
WErrorCallback == CompletionCallback("w_error_cb", current_iteration)

\* line 342: completion_cv.notify_all() wakes a caller blocked in the wait
WNotify ==
    /\ ~crashed /\ wpc = "w_notify"
    /\ wpc' = "w_return"
    /\ cpc' = IF cpc = "wc_blocked" THEN "wc_relock" ELSE cpc
    /\ cb_log' = Append(cb_log, Notified)
    /\ UNCHANGED << call, ret, out >>
    /\ UNCHANGED << current, last_checkpoint, last_checkpoint_iter,
                    completed_iterations, batch_end, i, elapsed >>
    /\ UNCHANGED << ctxVars, crashed, nlive, tickVars, runs, phase_run, failed, stop_fence,
                    saw_completed, started, squarings_after_stop >>

\* the thread function returns and its locals are gone; the std::thread
\* stays joinable
WReturn ==
    /\ ~crashed /\ wpc = "w_return"
    /\ wpc' = "done"
    /\ nlive' = nlive - 1
    /\ UNCHANGED tickVars
    /\ current' = NoForm
    /\ last_checkpoint' = NoForm
    /\ last_checkpoint_iter' = 0
    /\ completed_iterations' = 0
    /\ batch_end' = 0
    /\ i' = 0
    /\ UNCHANGED << ctxVars, callerVars, crashed, runs, phase_run, failed,
                    stop_fence, squarings_after_stop, cb_log, saw_completed, started >>
    /\ UNCHANGED elapsed

Worker ==
    \/ WStoreComputing \/ WInit \/ WOuter \/ WInner \/ WSquare \/ WSquareThrows
    \/ WCheckpoint \/ WBatchEnd \/ WFinal \/ WComplete \/ WCompletedCallback
    \/ WStopped \/ WCatch \/ WNotify \/ WReturn

(* --------------------------- the caller thread -------------------------- *)
\* the caller enters an API function; `c` holds the function and its
\* arguments
Enter(c, pc) ==
    /\ ~crashed /\ cpc = "ready"
    /\ call' = c
    /\ cpc' = pc
    /\ ret' = "pending"
    /\ out' = NoOut
    /\ UNCHANGED << ctxVars, workerVars, ghostVars, tickVars >>

\* cpu_vdf_start_computation(ctx, challenge, NULL, T, bits)
CallStart ==
    \E T \in Iterations, ch \in Challenges :
        /\ runs < MaxRuns
        /\ Enter([NoCall EXCEPT !.op = "start", !.kind = "challenge",
                                !.T = T, !.bytes = ch], "st_params")

\* cpu_vdf_start_computation_with_discriminant(ctx, bytes, len, NULL, T)
CallStartWithDiscriminant ==
    \E T \in Iterations, bs \in DiscInputs :
        /\ runs < MaxRuns
        /\ Enter([NoCall EXCEPT !.op = "start", !.kind = "discriminant",
                                !.T = T, !.bytes = bs], "st_params")

\* StartParamsInvalid without `iterations == 0`
StartParamsInvalid_NoZero(c) == c.kind = "discriminant" /\ Len(c.bytes) = 0

\* lines 389-391 and 442-444: the parameter check
StartParamsInvalid(c) ==
    \/ c.T = 0
    \/ (c.kind = "discriminant" /\ Len(c.bytes) = 0)

StartParams ==
    /\ ~crashed /\ cpc = "st_params"
    /\ IF StartParamsInvalid(call)
       THEN Return("INVALID_PARAMETERS")
       ELSE Goto("st_guard")
    /\ UNCHANGED << out, ctxVars, workerVars, ghostVars, tickVars >>

\* StartGuard without the test of lines 393 and 446
StartGuard_NoCheck ==
    /\ ~crashed /\ cpc = "st_guard"
    /\ Goto("st_setup")
    /\ out' = [out EXCEPT !.state = state]
    /\ UNCHANGED << ctxVars, workerVars, ghostVars, tickVars >>

\* lines 393-395 and 446-448: the load of state
StartGuard ==
    /\ ~crashed /\ cpc = "st_guard"
    /\ IF state = "COMPUTING"
       THEN Return("ALREADY_RUNNING")
       ELSE Goto("st_setup")
    /\ out' = [out EXCEPT !.state = state]
    /\ UNCHANGED << ctxVars, workerVars, ghostVars, tickVars >>

\* lines 415-423 and 492-499: the reset both starts make once the
\* discriminant D and the initial form f0 are set; only start_computation
\* assigns generate_streaming_proofs
\* StartReset that enables checkpoints whatever segment_size is
StartReset_AlwaysStore(D, f0) ==
    /\ discriminant' = D
    /\ initial_form' = f0
    /\ current_form' = f0
    /\ target_iterations' = call.T
    /\ current_iteration' = 0
    /\ should_stop' = FALSE
    /\ store_checkpoints' = TRUE
    /\ generate_streaming_proofs' = generate_streaming_proofs
    /\ checkpoint_proofs' = <<>>
    /\ Goto("st_spawn")
    /\ UNCHANGED << segment_size, state, final_form, joinable, mutex,
                    checkpoint_interval, progress_cb, completion_cb, update_interval_ms >>

\* lines 415-423 and 492-499: the reset both start functions make;
\* start_computation_with_discriminant leaves generate_streaming_proofs as
\* it finds it
StartReset(D, f0) ==
    /\ discriminant' = D
    /\ initial_form' = f0
    /\ current_form' = f0
    /\ target_iterations' = call.T
    /\ current_iteration' = 0
    /\ should_stop' = FALSE
    /\ store_checkpoints' = (segment_size > 0)
    /\ generate_streaming_proofs' =
         IF call.kind = "challenge" THEN (segment_size > 0)
         ELSE generate_streaming_proofs
    /\ checkpoint_proofs' = <<>>
    /\ Goto("st_spawn")
    /\ UNCHANGED << segment_size, state, final_form, joinable, mutex,
                    checkpoint_interval, progress_cb, completion_cb, update_interval_ms >>

\* lines 397-423 of start_computation; lines 450-499 of
\* start_computation_with_discriminant, which returns INVALID_DISCRIMINANT
\* after it has overwritten ctx->discriminant
StartSetup ==
    /\ ~crashed /\ cpc = "st_setup"
    /\ IF call.kind = "challenge"
       THEN LET D == generate_discriminant(ChallengeSeed(call.bytes))
            IN  StartReset(D, generator(D))
       ELSE LET D == AdjustDiscriminant(call.bytes) IN
            IF D >= 0
            THEN /\ discriminant' = D
                 /\ Return("INVALID_DISCRIMINANT")
                 /\ UNCHANGED << segment_size, state, current_iteration,
                                 target_iterations, initial_form, current_form,
                                 final_form, joinable, should_stop, mutex,
                                 checkpoint_proofs, checkpoint_interval,
                                 store_checkpoints, generate_streaming_proofs, progress_cb,
                    completion_cb, update_interval_ms >>
            ELSE IF ~check_valid(generator(D), D)
            THEN /\ discriminant' = D
                 /\ initial_form' = generator(D)
                 /\ Return("INVALID_FORM")
                 /\ UNCHANGED << segment_size, state, current_iteration,
                                 target_iterations, current_form,
                                 final_form, joinable, should_stop, mutex,
                                 checkpoint_proofs, checkpoint_interval,
                                 store_checkpoints, generate_streaming_proofs, progress_cb,
                    completion_cb, update_interval_ms >>
            ELSE StartReset(D, generator(D))
    /\ stop_fence' = (IF cpc' = "st_spawn" THEN FALSE ELSE stop_fence)
    /\ squarings_after_stop' = (IF cpc' = "st_spawn" THEN 0 ELSE squarings_after_stop)
    /\ UNCHANGED cb_log
    /\ saw_completed' = (IF cpc' = "st_spawn" THEN FALSE ELSE saw_completed)
    /\ started' = (IF cpc' = "st_spawn" THEN [started EXCEPT !.kind = call.kind]
                   ELSE started)
    /\ UNCHANGED << out, workerVars, crashed, nlive, tickVars, runs, phase_run, failed >>

\* lines 426-432 and 501-508: the new thread is created and move-assigned to
\* ctx->computation_thread; when that std::thread is still joinable the
\* assignment calls std::terminate and the process is gone
StartSpawn ==
    /\ ~crashed /\ cpc = "st_spawn"
    /\ nlive' = nlive + 1
    /\ UNCHANGED tickVars
    /\ runs' = runs + 1
    /\ IF joinable
       THEN /\ crashed' = TRUE
            /\ UNCHANGED << wpc, failed, cpc, ret, call, joinable, cb_log >>
       ELSE /\ joinable' = TRUE
            /\ wpc' = "w_start"
            /\ failed' = FALSE
            /\ cb_log' = << >>
            /\ Return("SUCCESS")
            /\ UNCHANGED crashed
    /\ UNCHANGED << segment_size, state, current_iteration, target_iterations,
                    discriminant, initial_form, current_form, final_form,
                    should_stop, mutex, checkpoint_proofs, checkpoint_interval,
                    store_checkpoints, generate_streaming_proofs, progress_cb,
                    completion_cb, update_interval_ms >>
    /\ UNCHANGED << current, last_checkpoint, last_checkpoint_iter,
                    completed_iterations, batch_end, i, elapsed >>
    /\ UNCHANGED << out, phase_run, stop_fence, squarings_after_stop, saw_completed, started >>

\* cpu_vdf_stop_computation
CallStop == Enter([NoCall EXCEPT !.op = "stop"], "sp_set")

\* line 514
StopSet ==
    /\ ~crashed /\ cpc = "sp_set"
    /\ should_stop' = TRUE
    /\ squarings_after_stop' = (IF should_stop THEN squarings_after_stop ELSE 0)
    /\ UNCHANGED cb_log
    /\ cpc' = "sp_join"
    /\ UNCHANGED << segment_size, state, current_iteration, target_iterations,
                    discriminant, initial_form, current_form, final_form, joinable,
                    mutex, checkpoint_proofs, checkpoint_interval, store_checkpoints,
                    generate_streaming_proofs, progress_cb,
                    completion_cb, update_interval_ms >>
    /\ UNCHANGED << call, ret, out, workerVars, crashed, nlive, tickVars, runs, phase_run, failed,
                    stop_fence, saw_completed, started >>

\* StopJoin that returns without joining the thread
StopJoin_NoWait ==
    /\ ~crashed /\ cpc = "sp_join"
    /\ Return("SUCCESS")
    /\ stop_fence' = TRUE
    /\ UNCHANGED << squarings_after_stop, cb_log >>
    /\ UNCHANGED << out, ctxVars, workerVars, crashed, nlive, tickVars, runs, phase_run,
                    failed, saw_completed, started >>

\* lines 516-520: join() returns once the thread function has returned
StopJoin ==
    /\ ~crashed /\ cpc = "sp_join"
    /\ IF joinable
       THEN /\ wpc = "done"
            /\ joinable' = FALSE
            /\ wpc' = "none"
       ELSE UNCHANGED << joinable, wpc >>
    /\ Return("SUCCESS")
    /\ stop_fence' = TRUE
    /\ UNCHANGED << squarings_after_stop, cb_log >>
    /\ UNCHANGED << segment_size, state, current_iteration, target_iterations,
                    discriminant, initial_form, current_form, final_form,
                    should_stop, mutex, checkpoint_proofs, checkpoint_interval,
                    store_checkpoints, generate_streaming_proofs, progress_cb,
                    completion_cb, update_interval_ms >>
    /\ UNCHANGED << current, last_checkpoint, last_checkpoint_iter,
                    completed_iterations, batch_end, i, elapsed >>
    /\ UNCHANGED << out, crashed, nlive, tickVars, runs, phase_run, failed, saw_completed,
                    started >>

\* cpu_vdf_wait_completion(ctx, timeout_ms)
CallWait ==
    \E t \in {0, 1} :
        Enter([NoCall EXCEPT !.op = "wait_completion", !.timeout = t], "wc_lock")

\* line 553: std::unique_lock lock(ctx->mutex)
WaitLock ==
    /\ ~crashed /\ cpc = "wc_lock"
    /\ mutex = "free"
    /\ mutex' = "caller"
    /\ cpc' = "wc_check"
    /\ UNCHANGED << segment_size, state, current_iteration, target_iterations,
                    discriminant, initial_form, current_form, final_form, joinable,
                    should_stop, checkpoint_proofs, checkpoint_interval,
                    store_checkpoints, generate_streaming_proofs, progress_cb,
                    completion_cb, update_interval_ms >>
    /\ UNCHANGED << call, ret, out, workerVars, ghostVars, tickVars >>

\* leaving the function releases the unique_lock
WaitReturn(r) ==
    /\ mutex' = "free"
    /\ Return(r)
    /\ saw_completed' = (saw_completed \/ state = "COMPLETED")
    /\ UNCHANGED << segment_size, state, current_iteration, target_iterations,
                    discriminant, initial_form, current_form, final_form, joinable,
                    should_stop, checkpoint_proofs, checkpoint_interval,
                    store_checkpoints, generate_streaming_proofs, progress_cb,
                    completion_cb, update_interval_ms >>
    /\ UNCHANGED << out, workerVars, crashed, nlive, tickVars, runs, phase_run,
                    failed, stop_fence, squarings_after_stop, cb_log, started >>

\* lines 555-558: the first load of state, with the mutex held
WaitCheck ==
    /\ ~crashed /\ cpc = "wc_check"
    /\ IF state \in Terminal
       THEN WaitReturn("SUCCESS")
       ELSE /\ Goto("wc_pred")
            /\ UNCHANGED << ctxVars, out, workerVars, ghostVars, tickVars >>

\* lines 561-570: wait(lock, pred) and wait_for(lock, t, pred) evaluate the
\* predicate with the mutex held, and call the plain wait when it is false
WaitPredicate ==
    /\ ~crashed /\ cpc = "wc_pred"
    /\ IF state \in Terminal
       THEN WaitReturn("SUCCESS")
       ELSE /\ Goto("wc_wait")
            /\ UNCHANGED << ctxVars, out, workerVars, ghostVars, tickVars >>

\* the plain wait releases the mutex and blocks on completion_cv in one
\* atomic step; a notify_all made before it is not seen
WaitBlock ==
    /\ ~crashed /\ cpc = "wc_wait"
    /\ cpc' = "wc_blocked"
    /\ mutex' = "free"
    /\ UNCHANGED << segment_size, state, current_iteration, target_iterations,
                    discriminant, initial_form, current_form, final_form,
                    joinable, should_stop, checkpoint_proofs,
                    checkpoint_interval, store_checkpoints,
                    generate_streaming_proofs, progress_cb,
                    completion_cb, update_interval_ms >>
    /\ UNCHANGED << call, ret, out, workerVars, ghostVars, tickVars >>

\* a condition variable may wake up without a notification
WaitSpuriousWakeup ==
    /\ ~crashed /\ cpc = "wc_blocked"
    /\ cpc' = "wc_relock"
    /\ UNCHANGED << call, ret, out, ctxVars, workerVars, ghostVars, tickVars >>

\* the woken caller takes the mutex again and evaluates the predicate
WaitRelock ==
    /\ ~crashed /\ cpc = "wc_relock"
    /\ mutex = "free"
    /\ mutex' = "caller"
    /\ cpc' = "wc_pred"
    /\ UNCHANGED << segment_size, state, current_iteration, target_iterations,
                    discriminant, initial_form, current_form, final_form, joinable,
                    should_stop, checkpoint_proofs, checkpoint_interval,
                    store_checkpoints, generate_streaming_proofs, progress_cb,
                    completion_cb, update_interval_ms >>
    /\ UNCHANGED << call, ret, out, workerVars, ghostVars, tickVars >>

\* lines 566-572: wait_for runs out of time; it takes the mutex again and
\* returns what the predicate says then
WaitTimeout ==
    /\ ~crashed /\ cpc = "wc_blocked"
    /\ call.timeout # 0
    /\ cpc' = "wc_timedout"
    /\ UNCHANGED << call, ret, out, ctxVars, workerVars, ghostVars, tickVars >>

WaitTimedOut ==
    /\ ~crashed /\ cpc = "wc_timedout"
    /\ mutex = "free"
    /\ WaitReturn(IF state \in Terminal THEN "SUCCESS" ELSE "COMPUTATION_FAILED")

\* cpu_vdf_get_status
CallGetStatus == Enter([NoCall EXCEPT !.op = "get_status"], "gs_iteration")

\* line 526: the load of current_iteration
StatusIteration ==
    /\ ~crashed /\ cpc = "gs_iteration"
    /\ out' = [out EXCEPT !.iter = current_iteration]
    /\ cpc' = "gs_state"
    /\ UNCHANGED << call, ret, ctxVars, workerVars, ghostVars, tickVars >>

\* lines 527-528: target_iterations, then the load of state
StatusState ==
    /\ ~crashed /\ cpc = "gs_state"
    /\ out' = [out EXCEPT !.T = target_iterations, !.state = state, !.run = phase_run]
    /\ Return("SUCCESS")
    /\ saw_completed' = (saw_completed \/ state = "COMPLETED")
    /\ UNCHANGED << ctxVars, workerVars, crashed, nlive, tickVars, runs, phase_run,
                    failed, stop_fence, squarings_after_stop, cb_log, started >>

\* cpu_vdf_is_complete
CallIsComplete == Enter([NoCall EXCEPT !.op = "is_complete"], "ic_load")

\* line 580
IsComplete ==
    /\ ~crashed /\ cpc = "ic_load"
    /\ out' = [out EXCEPT !.complete = (state = "COMPLETED"), !.state = state,
                          !.run = phase_run]
    /\ Return(IF state = "COMPLETED" THEN "true" ELSE "false")
    /\ saw_completed' = (saw_completed \/ state = "COMPLETED")
    /\ UNCHANGED << ctxVars, workerVars, crashed, nlive, tickVars, runs, phase_run,
                    failed, stop_fence, squarings_after_stop, cb_log, started >>

\* a caller locks the mutex (lock_guard) and moves on to pc
CallerLock(from, to) ==
    /\ ~crashed /\ cpc = from
    /\ mutex = "free"
    /\ mutex' = "caller"
    /\ cpc' = to
    /\ UNCHANGED << segment_size, state, current_iteration, target_iterations,
                    discriminant, initial_form, current_form, final_form, joinable,
                    should_stop, checkpoint_proofs, checkpoint_interval,
                    store_checkpoints, generate_streaming_proofs, progress_cb,
                    completion_cb, update_interval_ms >>
    /\ UNCHANGED << call, ret, out, workerVars, ghostVars, tickVars >>

\* with the mutex held the caller writes o to its out-parameters, unlocks
\* and returns SUCCESS
CallerReadUnlock(from, o) ==
    /\ ~crashed /\ cpc = from
    /\ out' = o
    /\ mutex' = "free"
    /\ Return("SUCCESS")
    /\ UNCHANGED << segment_size, state, current_iteration, target_iterations,
                    discriminant, initial_form, current_form, final_form, joinable,
                    should_stop, checkpoint_proofs, checkpoint_interval,
                    store_checkpoints, generate_streaming_proofs, progress_cb,
                    completion_cb, update_interval_ms >>
    /\ UNCHANGED << workerVars, ghostVars, tickVars >>

\* cpu_vdf_get_result_form
CallGetResultForm == Enter([NoCall EXCEPT !.op = "get_result_form"], "rf_check")

\* lines 586-588: the load of state, before the mutex is taken
ResultFormCheck ==
    /\ ~crashed /\ cpc = "rf_check"
    /\ IF state # "COMPLETED"
       THEN Return("COMPUTATION_FAILED") /\ UNCHANGED saw_completed
       ELSE Goto("rf_lock") /\ saw_completed' = TRUE
    /\ UNCHANGED << out, ctxVars, workerVars, crashed, nlive, tickVars, runs,
                    phase_run, failed, stop_fence, squarings_after_stop, cb_log, started >>

\* line 590
ResultFormLock == CallerLock("rf_lock", "rf_read")

\* lines 596-612: export final_form
ResultFormRead == CallerReadUnlock("rf_read", [out EXCEPT !.form = final_form])

\* cpu_vdf_get_checkpoint_count
CallGetCheckpointCount ==
    Enter([NoCall EXCEPT !.op = "get_checkpoint_count"], "cc_lock")

\* line 1215
CheckpointCountLock == CallerLock("cc_lock", "cc_read")

\* line 1216
CheckpointCountRead ==
    CallerReadUnlock("cc_read", [out EXCEPT !.count = Len(checkpoint_proofs)])

Caller ==
    \/ CallStart \/ CallStartWithDiscriminant
    \/ StartParams \/ StartGuard \/ StartSetup \/ StartSpawn
    \/ CallStop \/ StopSet \/ StopJoin
    \/ CallWait \/ WaitLock \/ WaitCheck \/ WaitPredicate \/ WaitBlock
    \/ WaitSpuriousWakeup
    \/ WaitRelock \/ WaitTimeout \/ WaitTimedOut
    \/ CallGetStatus \/ StatusIteration \/ StatusState
    \/ CallIsComplete \/ IsComplete
    \/ CallGetResultForm \/ ResultFormCheck \/ ResultFormLock \/ ResultFormRead
    \/ CallGetCheckpointCount \/ CheckpointCountLock \/ CheckpointCountRead

Next == Worker \/ Caller

Spec == Init /\ [][Next]_vars

\* The worker is an OS thread of its own: it is scheduled again and again, and
\* gets the mutex whenever it is released often enough.  A caller that holds
\* the mutex is inside a library call and runs on until it has released it.
FairSpec == Spec /\ SF_vars(Worker) /\ WF_vars(Caller /\ mutex = "caller")

(* ------------------------------ callbacks ------------------------------ *)
\* cpu_vdf_set_callbacks(ctx, progress_cb, completion_cb, interval, user_data),
\* called on the engine before its first run
CallSetCallbacks ==
    /\ runs = 0
    /\ \E p \in CallbackKinds \cup {"none"}, c \in CallbackKinds \cup {"none"},
          ms \in UpdateIntervals :
         Enter([NoCall EXCEPT !.op = "set_callbacks", !.progress_cb = p,
                              !.completion_cb = c, !.update_interval_ms = ms],
               "sc_lock")

\* line 1043
SetCallbacksLock == CallerLock("sc_lock", "sc_store")

\* lines 1045-1050
SetCallbacksStore ==
    /\ ~crashed /\ cpc = "sc_store"
    /\ progress_cb' = call.progress_cb
    /\ completion_cb' = call.completion_cb
    /\ update_interval_ms' = call.update_interval_ms
    /\ mutex' = "free"
    /\ Return("SUCCESS")
    /\ UNCHANGED << segment_size, state, current_iteration, target_iterations,
                    discriminant, initial_form, current_form, final_form, joinable,
                    should_stop, checkpoint_proofs, checkpoint_interval,
                    store_checkpoints, generate_streaming_proofs >>
    /\ UNCHANGED << out, workerVars, ghostVars, tickVars >>

\* runs with callbacks registered: started, stopped and started again
CallbackNext ==
    \/ Worker \/ WRefresh \/ WProgressCallback \/ WStoppedCallback \/ WErrorCallback
    \/ CallSetCallbacks \/ SetCallbacksLock \/ SetCallbacksStore
    \/ CallStart \/ StartParams \/ StartGuard \/ StartSetup \/ StartSpawn
    \/ CallStop \/ StopSet \/ StopJoin

CallbackSpec == Init /\ [][CallbackNext]_vars

(* ----------------------- proving and verifying ------------------------- *)
\* what the caller's cpu_vdf_proof_t holds when it is passed in: nothing, or
\* the buffer of an earlier proof
StaleProof == <<2, 0>>
PriorProofs == { <<>>, StaleProof }

\* a call that is handed the caller's proof struct
EnterWithProof(c, pc) ==
    /\ ~crashed /\ cpc = "ready"
    /\ call' = c
    /\ cpc' = pc
    /\ ret' = "pending"
    /\ \E prior \in PriorProofs : out' = [NoOut EXCEPT !.proof = prior]
    /\ UNCHANGED << ctxVars, workerVars, ghostVars, tickVars >>

\* cpu_vdf_generate_proof(ctx, recursion_level, &proof)
CallGenerateProof ==
    \E r \in RecursionLevels :
        EnterWithProof([NoCall EXCEPT !.op = "generate_proof", !.recursion_level = r],
                       "gp_check")

\* cpu_vdf_generate_proof_for_iterations(ctx, T, recursion_level, &proof)
CallGenerateProofForIterations ==
    \E r \in RecursionLevels, T \in 1 .. MaxProofT + 1 :
        EnterWithProof([NoCall EXCEPT !.op = "generate_proof_for_iterations",
                                      !.recursion_level = r, !.T = T], "gpi_check")

\* lines 754-758
GenerateProofForIterationsCheck ==
    /\ ~crashed /\ cpc = "gpi_check"
    /\ IF call.T > target_iterations
          THEN Return("INVALID_PARAMETERS")
          ELSE Goto("gp_check")
    /\ UNCHANGED << out, ctxVars, workerVars, ghostVars, tickVars >>

\* lines 619-621
GenerateProofCheck ==
    /\ ~crashed /\ cpc = "gp_check"
    /\ IF state # "COMPLETED" THEN Return("COMPUTATION_FAILED") ELSE Goto("gp_lock")
    /\ UNCHANGED << out, ctxVars, workerVars, ghostVars, tickVars >>

\* line 624
GenerateProofLock == CallerLock("gp_lock", "gp_build")

\* lines 630-741: the blob is built from the context and handed out
GenerateProofBuild ==
    /\ ~crashed /\ cpc = "gp_build"
    /\ out' = [out EXCEPT !.proof = ProofBlob(discriminant, initial_form, final_form,
                                              target_iterations, call.recursion_level),
                          !.T = target_iterations,
                          !.is_valid = TRUE,
                          !.recursion_level = call.recursion_level]
    /\ mutex' = "free"
    /\ Return("SUCCESS")
    /\ UNCHANGED << segment_size, state, current_iteration, target_iterations,
                    discriminant, initial_form, current_form, final_form, joinable,
                    should_stop, checkpoint_proofs, checkpoint_interval,
                    store_checkpoints, generate_streaming_proofs, progress_cb,
                    completion_cb, update_interval_ms >>
    /\ UNCHANGED << workerVars, ghostVars, tickVars >>

\* the blob b cut short, with one byte changed, or replaced by a blob a
\* forger serializes for a challenge prime of his own choice
Truncations(b) == { SubSeq(b, 1, n) : n \in 0 .. Len(b) - 1 }
ByteChanges(b) ==
    UNION { { [b EXCEPT ![k] = 0], [b EXCEPT ![k] = (b[k] + 1) % 256] }
              : k \in 1 .. Len(b) } \ {b}
Forgeries(b) ==
    { SerializeProof(b[2], target_iterations, l,
                     FastPow(initial_form, Pow2(target_iterations) \div l))
        : l \in ForgedPrimes }

\* cpu_vdf_verify_proof is called on the proof generate_proof handed out or
\* on a blob derived from it, with the engine's |D| as discriminant bytes
CallVerifyProof ==
    /\ ~crashed /\ cpc = "ready"
    /\ out.is_valid
    /\ \E blob \in {out.proof} \cup Truncations(out.proof) \cup ByteChanges(out.proof)
                     \cup Forgeries(out.proof),
          T \in {out.T, out.T + 1}, r \in RecursionLevels :
          call' = [NoCall EXCEPT !.op = "verify_proof", !.proof = blob, !.T = T,
                                 !.recursion_level = r,
                                 !.bytes = ExportBytes(discriminant)]
    /\ cpc' = "vp_run"
    /\ ret' = "pending"
    /\ UNCHANGED << out, ctxVars, workerVars, ghostVars, tickVars >>

\* lines 780-896; the arguments stay with the caller after the return
VerifyProof ==
    /\ ~crashed /\ cpc = "vp_run"
    /\ LET v == verify_proof(call.bytes, call.proof, call.T, call.recursion_level) IN
       /\ ret' = v
       /\ crashed' = (v = "crash")
    /\ cpc' = "ready"
    /\ UNCHANGED << call, out, ctxVars, workerVars, nlive, tickVars, runs, phase_run, failed,
                    stop_fence, squarings_after_stop, cb_log, saw_completed, started >>

\* one run is started; its result is then proved and verified
ProofCallStart ==
    /\ runs = 0
    /\ \E T \in 1 .. MaxProofT :
         \/ \E ch \in Challenges :
              Enter([NoCall EXCEPT !.op = "start", !.kind = "challenge",
                                   !.T = T, !.bytes = ch], "st_params")
         \/ Enter([NoCall EXCEPT !.op = "start", !.kind = "discriminant",
                                 !.T = T, !.bytes = <<69>>], "st_params")

ProofNext ==
    \/ ProofCallStart \/ StartParams \/ StartGuard \/ StartSetup \/ StartSpawn
    \/ WStoreComputing \/ WInit \/ WOuter \/ WInner \/ WSquare \/ WCheckpoint
    \/ WBatchEnd \/ WFinal \/ WComplete \/ WCompletedCallback \/ WNotify \/ WReturn
    \/ CallGenerateProof \/ CallGenerateProofForIterations
    \/ GenerateProofForIterationsCheck \/ GenerateProofCheck \/ GenerateProofLock
    \/ GenerateProofBuild \/ CallVerifyProof \/ VerifyProof

ProofSpec == Init /\ [][ProofNext]_vars

(* ------------------------- checkpoint proofs --------------------------- *)
\* the queries of the caller: range bounds and the capacity of its array
StartIterations == {0, 2}
EndIterations == {3, 5}
Capacities == {0, 1, 4}

\* lines 1168-1192: the entry written for record cp
ExportCheckpoint(cp) ==
    LET blob == serialized_proof(cp) IN
    [iteration |-> cp.iteration,
     a_data |-> ExportBytes(Coeffs(cp.checkpoint_form)[1]),
     b_data |-> ExportBytes(Coeffs(cp.checkpoint_form)[2]),
     c_data |-> ExportBytes(Coeffs(cp.checkpoint_form)[3]),
     proof_data |-> blob,
     has_proof |-> blob # <<>>]

\* the loop without the test on the capacity of the caller's array
RECURSIVE CopyCheckpoints_NoBreak(_, _, _, _, _)
CopyCheckpoints_NoBreak(k, start_iteration, end_iteration, max_proofs, proofs) ==
    IF k > Len(checkpoint_proofs) THEN proofs
    ELSE LET cp == checkpoint_proofs[k] IN
         CopyCheckpoints_NoBreak(k + 1, start_iteration, end_iteration, max_proofs,
             IF cp.iteration >= start_iteration /\ cp.iteration <= end_iteration
               THEN Append(proofs, ExportCheckpoint(cp))
               ELSE proofs)

\* lines 1164-1195: the loop over the list from record k on; proofs holds the
\* entries written so far, count is its length
RECURSIVE CopyCheckpoints(_, _, _, _, _)
CopyCheckpoints(k, start_iteration, end_iteration, max_proofs, proofs) ==
    IF k > Len(checkpoint_proofs) THEN proofs
    ELSE LET cp == checkpoint_proofs[k] IN
         IF cp.iteration >= start_iteration /\ cp.iteration <= end_iteration
           THEN IF Len(proofs) >= max_proofs
                  THEN proofs
                  ELSE CopyCheckpoints(k + 1, start_iteration, end_iteration,
                                       max_proofs, Append(proofs, ExportCheckpoint(cp)))
           ELSE CopyCheckpoints(k + 1, start_iteration, end_iteration, max_proofs,
                                proofs)

\* cpu_vdf_get_checkpoint_proofs(ctx, start_iteration, end_iteration, proofs,
\* &num_proofs)
CallGetCheckpointProofs ==
    \E s \in StartIterations, e \in EndIterations, cap \in Capacities :
        Enter([NoCall EXCEPT !.op = "get_checkpoint_proofs", !.start_iteration = s,
                             !.end_iteration = e, !.num_proofs = cap], "gcp_lock")

\* line 1159
GetCheckpointProofsLock == CallerLock("gcp_lock", "gcp_copy")

\* lines 1161-1198; the arguments stay with the caller after the return
GetCheckpointProofsCopy ==
    /\ ~crashed /\ cpc = "gcp_copy"
    /\ LET proofs == CopyCheckpoints(1, call.start_iteration, call.end_iteration,
                                     call.num_proofs, << >>) IN
       out' = [out EXCEPT !.proofs = proofs, !.count = Len(proofs)]
    /\ mutex' = "free"
    /\ cpc' = "ready"
    /\ ret' = "SUCCESS"
    /\ UNCHANGED << segment_size, state, current_iteration, target_iterations,
                    discriminant, initial_form, current_form, final_form, joinable,
                    should_stop, checkpoint_proofs, checkpoint_interval,
                    store_checkpoints, generate_streaming_proofs, progress_cb,
                    completion_cb, update_interval_ms >>
    /\ UNCHANGED << call, workerVars, ghostVars, tickVars >>

\* one run is started; the caller queries its checkpoint records while it
\* runs and after it
CheckpointNext ==
    \/ ProofCallStart \/ StartParams \/ StartGuard \/ StartSetup \/ StartSpawn
    \/ WStoreComputing \/ WInit \/ WOuter \/ WInner \/ WSquare \/ WCheckpoint
    \/ WBatchEnd \/ WFinal \/ WComplete \/ WCompletedCallback \/ WNotify \/ WReturn
    \/ CallGetCheckpointProofs \/ GetCheckpointProofsLock \/ GetCheckpointProofsCopy

CheckpointSpec == Init /\ [][CheckpointNext]_vars

(* ------------------------- discriminant bytes -------------------------- *)
\* the byte strings a caller passes as |D|: every residue mod 4, values the
\* adjustment turns positive, and a string with a leading zero byte
DiscriminantBytes ==
    { <<0>>, <<1>>, <<2>>, <<3>>, <<44>>, <<45>>, <<46>>, <<47>>,
      <<68>>, <<69>>, <<70>>, <<71>>, <<0, 47>> }

\* one call of cpu_vdf_start_computation_with_discriminant on a fresh engine
DiscriminantCallStart ==
    /\ runs = 0
    /\ \E T \in 1 .. MaxT, bs \in DiscriminantBytes :
         Enter([NoCall EXCEPT !.op = "start", !.kind = "discriminant",
                              !.T = T, !.bytes = bs], "st_params")

DiscriminantNext ==
    \/ DiscriminantCallStart \/ StartParams \/ StartGuard \/ StartSetup \/ StartSpawn
    \/ WStoreComputing \/ WInit \/ WOuter \/ WInner \/ WSquare \/ WCheckpoint
    \/ WBatchEnd \/ WFinal \/ WComplete \/ WCompletedCallback \/ WNotify \/ WReturn

DiscriminantSpec == Init /\ [][DiscriminantNext]_vars

(* ------------------------------ tick_init ------------------------------ *)
\* a thread calls tick_init()
TickCall(t) ==
    /\ tick_pc[t] = "idle" /\ tick_calls[t] < MaxTickCalls
    /\ tick_calls' = [tick_calls EXCEPT ![t] = @ + 1]
    /\ tick_pc' = [tick_pc EXCEPT ![t] = "test"]
    /\ UNCHANGED << g_initialized, init_gmp_runs, set_rounding_mode_runs >>
    /\ UNCHANGED << ctxVars, workerVars, callerVars, ghostVars >>

\* line 79: if (!g_initialized)
TickTest(t) ==
    /\ tick_pc[t] = "test"
    /\ tick_pc' = [tick_pc EXCEPT ![t] = IF g_initialized THEN "idle" ELSE "init_gmp"]
    /\ UNCHANGED << g_initialized, tick_calls, init_gmp_runs, set_rounding_mode_runs >>
    /\ UNCHANGED << ctxVars, workerVars, callerVars, ghostVars >>

\* line 80: init_gmp()
TickInitGmp(t) ==
    /\ tick_pc[t] = "init_gmp"
    /\ init_gmp_runs' = init_gmp_runs + 1
    /\ tick_pc' = [tick_pc EXCEPT ![t] = "set_rounding_mode"]
    /\ UNCHANGED << g_initialized, tick_calls, set_rounding_mode_runs >>
    /\ UNCHANGED << ctxVars, workerVars, callerVars, ghostVars >>

\* line 81: set_rounding_mode()
TickSetRoundingMode(t) ==
    /\ tick_pc[t] = "set_rounding_mode"
    /\ set_rounding_mode_runs' = set_rounding_mode_runs + 1
    /\ tick_pc' = [tick_pc EXCEPT ![t] = "set_flag"]
    /\ UNCHANGED << g_initialized, tick_calls, init_gmp_runs >>
    /\ UNCHANGED << ctxVars, workerVars, callerVars, ghostVars >>

\* line 82: g_initialized = true, and the return
TickSetFlag(t) ==
    /\ tick_pc[t] = "set_flag"
    /\ g_initialized' = TRUE
    /\ tick_pc' = [tick_pc EXCEPT ![t] = "idle"]
    /\ UNCHANGED << tick_calls, init_gmp_runs, set_rounding_mode_runs >>
    /\ UNCHANGED << ctxVars, workerVars, callerVars, ghostVars >>

TickNext ==
    \E t \in TickThreads :
        \/ TickCall(t) \/ TickTest(t) \/ TickInitGmp(t)
        \/ TickSetRoundingMode(t) \/ TickSetFlag(t)

TickSpec == Init /\ [][TickNext]_vars

(* ---------------------- discriminants of challenges -------------------- *)
\* challenge hashes, five bytes standing for the 32: they differ in the
\* first four bytes, in the fifth byte only, and in the top bit
ChallengeHashes ==
    { <<0, 0, 0, 1, 0>>, <<0, 0, 0, 1, 9>>, <<0, 0, 0, 2, 0>>, <<0, 0, 1, 2, 3>>,
      <<128, 0, 0, 1, 0>>, <<128, 0, 0, 2, 7>> }

\* discriminant_size_bits and discriminant_out_size of create_discriminant
DiscriminantBits == {6, 7, 8}
OutSizes == {0, 1, 2}

\* one call of cpu_vdf_start_computation on a fresh engine
ChallengeCallStart ==
    /\ runs = 0
    /\ \E T \in 1 .. MaxT, ch \in ChallengeHashes :
         Enter([NoCall EXCEPT !.op = "start", !.kind = "challenge",
                              !.T = T, !.bytes = ch], "st_params")

\* cpu_vdf_create_discriminant(challenge, bits, out, out_size)
CallCreateDiscriminant ==
    \E ch \in ChallengeHashes, bits \in DiscriminantBits, size \in OutSizes :
        Enter([NoCall EXCEPT !.op = "create_discriminant", !.bytes = ch,
                             !.bits = bits, !.out_size = size], "cd_run")

\* lines 939-954: the size test, then mpz_export into the caller's buffer
\* and the count as return value (held in out.count); a write past the end
\* of the buffer may or may not bring the process down.  The arguments
\* stay with the caller after the return.
CreateDiscriminant ==
    /\ ~crashed /\ cpc = "cd_run"
    /\ cpc' = "ready"
    /\ IF call.out_size < call.bits \div 8
       THEN /\ ret' = "INVALID_PARAMETERS"
            /\ UNCHANGED << out, crashed >>
       ELSE LET bytes == CreatedDiscriminantBytes(call.bytes) IN
            /\ ret' = "COUNT"
            /\ out' = [out EXCEPT !.bytes = bytes, !.count = Len(bytes)]
            /\ \E corrupts \in BOOLEAN :
                 crashed' = (corrupts /\ Len(bytes) > call.out_size)
    /\ UNCHANGED << call, ctxVars, workerVars, nlive, tickVars, runs, phase_run, failed,
                    stop_fence, squarings_after_stop, cb_log, saw_completed, started >>

\* cpu_vdf_verify_proof_with_challenge on the proof the caller holds
CallVerifyProofWithChallenge ==
    /\ ~crashed /\ cpc = "ready"
    /\ out.is_valid
    /\ \E ch \in ChallengeHashes, r \in RecursionLevels :
          call' = [NoCall EXCEPT !.op = "verify_proof_with_challenge", !.bytes = ch,
                                 !.proof = out.proof, !.T = out.T,
                                 !.recursion_level = r]
    /\ cpc' = "vc_run"
    /\ ret' = "pending"
    /\ UNCHANGED << out, ctxVars, workerVars, ghostVars, tickVars >>

\* lines 906-928; the arguments stay with the caller after the return
VerifyProofWithChallenge ==
    /\ ~crashed /\ cpc = "vc_run"
    /\ LET v == verify_proof_with_challenge(call.bytes, call.proof, call.T,
                                            call.recursion_level) IN
       /\ ret' = v
       /\ crashed' = (v = "crash")
    /\ cpc' = "ready"
    /\ UNCHANGED << call, out, ctxVars, workerVars, nlive, tickVars, runs, phase_run, failed,
                    stop_fence, squarings_after_stop, cb_log, saw_completed, started >>

\* one run on a challenge; its discriminant is also created and used for
\* verification from challenges
ChallengeNext ==
    \/ ChallengeCallStart \/ StartParams \/ StartGuard \/ StartSetup \/ StartSpawn
    \/ WStoreComputing \/ WInit \/ WOuter \/ WInner \/ WSquare \/ WCheckpoint
    \/ WBatchEnd \/ WFinal \/ WComplete \/ WCompletedCallback \/ WNotify \/ WReturn
    \/ CallGenerateProof \/ GenerateProofCheck \/ GenerateProofLock
    \/ GenerateProofBuild
    \/ CallCreateDiscriminant \/ CreateDiscriminant
    \/ CallVerifyProofWithChallenge \/ VerifyProofWithChallenge

ChallengeSpec == Init /\ [][ChallengeNext]_vars

(* ------------------------------- claims -------------------------------- *)
\* the worker of the run last started has stored COMPLETED
RunCompleted == state = "COMPLETED" /\ phase_run = runs

\* the caller is back from the call op
Returned(op) == cpc = "ready" /\ call.op = op

\* the iterations of the records a finished run of T iterations holds: the
\* sentinel at 0 in streaming mode, then every iteration AtCheckpoint picks
RECURSIVE IterationsUpTo(_, _)
IterationsUpTo(t, T) ==
    IF t > T THEN <<>>
    ELSE (IF t % checkpoint_interval = 0 \/ t = T THEN <<t>> ELSE <<>>)
         \o IterationsUpTo(t + 1, T)

ExpectedIterations(T) ==
    IF ~store_checkpoints THEN <<>>
    ELSE (IF generate_streaming_proofs THEN <<0>> ELSE <<>>) \o IterationsUpTo(1, T)

CheckpointsFull(T) ==
    /\ [k \in 1 .. Len(checkpoint_proofs) |-> checkpoint_proofs[k].iteration]
         = ExpectedIterations(T)
    /\ \A k \in 1 .. Len(checkpoint_proofs) :
         checkpoint_proofs[k].checkpoint_form
           = SquareN(started.f0, checkpoint_proofs[k].iteration)

\* C1: every run that is started leads to its worker having stored COMPLETED,
\* unless stop is requested or a squaring fails on the way; and at the step
\* that makes the phase COMPLETED, current_iteration = T and final_form is T
\* squarings of the initial form.
C1_RunReachesCompleted ==
    /\ \A r \in 1 .. MaxRuns :
         (runs = r /\ wpc = "w_start")
            ~> ((state = "COMPLETED" /\ phase_run = r) \/ should_stop \/ failed)
    /\ [][(state # "COMPLETED" /\ state' = "COMPLETED") =>
             /\ current_iteration' = started.T
             /\ final_form' = SquareN(started.f0, started.T)]_vars

\* C2 as stated: after stop returns, the phase is STOPPED or COMPLETED.
C2_StoppedOrCompleted ==
    (Returned("stop") /\ ret = "SUCCESS") => state \in {"STOPPED", "COMPLETED"}

\* C2 amended: after stop returns, the phase is never COMPUTING; it is
\* STOPPED, COMPLETED or ERROR when a run was started on the engine and IDLE
\* when none was.
C2_NotComputingAfterStop ==
    (Returned("stop") /\ ret = "SUCCESS") =>
        IF runs = 0 THEN state = "IDLE"
        ELSE \/ state \in {"STOPPED", "COMPLETED"}
             \/ state = "ERROR" /\ failed

C2_Witness ==
    /\ Returned("stop") /\ ret = "SUCCESS"
    /\ state = "STOPPED"
    /\ 0 < current_iteration /\ current_iteration < target_iterations

\* what C3 and C7 list as left alone by a rejected start
EngineUntouched ==
    UNCHANGED << ctxVars, workerVars, nlive, tickVars, runs >>

\* a step of the start handler taken while the phase is COMPUTING
StartStepWhileComputing ==
    /\ call.op = "start" /\ cpc \in {"st_params", "st_guard"} /\ cpc' # cpc
    /\ state = "COMPUTING"

\* C3 as stated: a start made while the phase is COMPUTING returns
\* ALREADY_RUNNING and changes nothing.
C3_AlreadyRunning ==
    [][(StartStepWhileComputing /\ cpc' = "ready") =>
          (ret' = "ALREADY_RUNNING" /\ EngineUntouched)]_vars

\* C3 amended: a start made while the phase is COMPUTING changes nothing and
\* returns ALREADY_RUNNING when its parameters are valid (T > 0 and, for
\* start_with_discriminant, a non-empty byte string), INVALID_PARAMETERS
\* when they are not.
C3_RejectedWhileComputing ==
    [][StartStepWhileComputing =>
          /\ EngineUntouched
          /\ cpc = "st_guard" => (cpc' = "ready" /\ ret' = "ALREADY_RUNNING")
          /\ cpc' = "ready" =>
               ret' = (IF StartParamsInvalid(call) THEN "INVALID_PARAMETERS"
                       ELSE "ALREADY_RUNNING")]_vars

C3_Witness ==
    /\ Returned("start") /\ ret = "ALREADY_RUNNING"
    /\ state = "COMPUTING" /\ current_iteration > 0

\* C4: once a start has returned SUCCESS the phase is the one of the run it
\* started (COMPUTING, or the terminal phase that run has reached), and
\* every get_status and is_complete made afterwards reads such a phase,
\* never IDLE and never the terminal phase of an earlier run.
C4_PhaseOfThisRun ==
    /\ (Returned("start") /\ ret = "SUCCESS") => phase_run = runs
    /\ (runs > 0 /\ (Returned("get_status") \/ Returned("is_complete"))) =>
           out.run = runs

\* C5: at most one worker thread of the engine exists at any time.
C5_AtMostOneWorker == nlive <= 1

\* C6: a start whose load of state finds COMPLETED, STOPPED or ERROR is
\* accepted: its thread-creation step returns SUCCESS with a fresh worker and
\* current_iteration = 0, whether or not the thread of the previous run was
\* joined by a stop.
C6_RestartAccepted ==
    [][(cpc = "st_spawn" /\ out.state \in Terminal /\ runs' # runs) =>
          /\ ~crashed'
          /\ cpc' = "ready" /\ ret' = "SUCCESS"
          /\ wpc' = "w_start" /\ current_iteration' = 0]_vars

\* C7: a start with T = 0 returns INVALID_PARAMETERS, creates no worker and
\* leaves the phase, current_iteration, D and the checkpoint list as they
\* were, in every phase.
C7_ZeroIterationsRejected ==
    [][(cpc = "st_params" /\ call.T = 0 /\ cpc' # cpc) =>
          (cpc' = "ready" /\ ret' = "INVALID_PARAMETERS" /\ EngineUntouched)]_vars

C7_Witness ==
    /\ Returned("start") /\ call.kind = "challenge" /\ ret = "INVALID_PARAMETERS"
    /\ state = "COMPUTING" /\ nlive = 1

\* C8: no wake-up is lost: a caller of wait_completion(0) is never left
\* blocked on completion_cv once the worker has stored a terminal phase and
\* made its notify_all.
C8_NoLostWakeup ==
    ~ ( /\ cpc = "wc_blocked" /\ call.timeout = 0
        /\ state \in Terminal
        /\ wpc \in {"w_return", "done"} )

\* C9: a caller that has loaded state = COMPLETED and then holds the mutex
\* finds the final form of the run (T squarings of its initial form) and the
\* run's full checkpoint list.
C9_CompletedPublishesResult ==
    (mutex = "caller" /\ saw_completed) =>
        /\ final_form = SquareN(started.f0, started.T)
        /\ CheckpointsFull(started.T)

\* C10: from the return of stop to the next start that resets the engine,
\* current_iteration keeps its value.
C10_NoGrowthAfterStop ==
    [][(stop_fence /\ stop_fence') => current_iteration' = current_iteration]_vars

C10_Witness ==
    /\ stop_fence /\ state = "STOPPED"
    /\ 0 < current_iteration /\ current_iteration < target_iterations
    /\ Returned("get_status") /\ out.iter = current_iteration

\* C11: while should_stop stays true the worker makes at most one more
\* squaring (the one whose loop test it had already passed), and a worker
\* that has returned under should_stop has left a terminal phase behind.
C11_AtMostOneSquaringAfterStop ==
    should_stop =>
        /\ squarings_after_stop <= 1
        /\ wpc \in {"w_return", "done"} => state \in Terminal

C11_Witness ==
    /\ should_stop /\ squarings_after_stop = 1
    /\ wpc = "done" /\ state = "STOPPED"
    /\ current_iteration < target_iterations

\* the last record of the checkpoint list
LastCheckpoint == checkpoint_proofs[Len(checkpoint_proofs)]

\* C16: in every state the iterations of the checkpoint list are strictly
\* increasing, so no iteration is recorded twice.
C16_StrictlyIncreasing ==
    \A k \in 1 .. Len(checkpoint_proofs) - 1 :
        checkpoint_proofs[k].iteration < checkpoint_proofs[k + 1].iteration

C16_Witness ==
    /\ RunCompleted /\ wpc = "done"
    /\ checkpoint_interval > 0
    /\ target_iterations % checkpoint_interval = 0
    /\ Len(checkpoint_proofs) = 2
    /\ LastCheckpoint.iteration = target_iterations

\* C17: with segment_size > 0 the first record of the list is the sentinel:
\* iteration 0 and the initial form of the run, whichever start launched it.
C17_FirstRecordIsSentinel ==
    (segment_size > 0 /\ Len(checkpoint_proofs) > 0) =>
        /\ checkpoint_proofs[1].iteration = 0
        /\ checkpoint_proofs[1].checkpoint_form = started.f0

\* C18: at the step that makes the phase COMPLETED in a run with checkpoints
\* enabled, the last record has iteration T and holds the final form.
C18_LastRecordIsFinal ==
    [][(state # "COMPLETED" /\ state' = "COMPLETED" /\ store_checkpoints') =>
          /\ Len(checkpoint_proofs') > 0
          /\ LastCheckpoint'.iteration = target_iterations'
          /\ LastCheckpoint'.checkpoint_form = final_form']_vars

\* 1 + floor(T/s) + (1 if T mod s # 0)
ExpectedCount(T, s) == 1 + (T \div s) + (IF T % s # 0 THEN 1 ELSE 0)

\* C19: a get_checkpoint_count that reads the list of a completed run, which
\* start launched with segment_size s > 0, returns
\* 1 + floor(T/s) + (1 if T mod s # 0).
C19_CountOnCompletion ==
    [][(/\ call.op = "get_checkpoint_count" /\ cpc = "cc_read" /\ cpc' = "ready"
        /\ RunCompleted /\ started.kind = "challenge" /\ segment_size > 0)
          => out'.count = ExpectedCount(started.T, segment_size)]_vars

C19_Witness ==
    /\ Returned("get_checkpoint_count") /\ ret = "SUCCESS"
    /\ RunCompleted /\ started.kind = "challenge" /\ segment_size > 0
    /\ started.T % segment_size # 0
    /\ out.count = 3

\* C20: with segment_size = 0 the checkpoint list is empty in every state and
\* get_checkpoint_count returns 0, restarts included.
C20_NoCheckpointsWhenDisabled ==
    segment_size = 0 =>
        /\ checkpoint_proofs = <<>>
        /\ (Returned("get_checkpoint_count") /\ ret = "SUCCESS") => out.count = 0

C20_Witness ==
    /\ segment_size = 0 /\ runs = 2 /\ RunCompleted
    /\ Returned("get_checkpoint_count") /\ ret = "SUCCESS" /\ out.count = 0

(* ---------------------- claims on proofs (ProofSpec) ------------------- *)
\* verify_proof has returned on the blob generate_proof handed out, with
\* the iteration count and recursion level the blob was generated for
VerifiedGenuine ==
    /\ Returned("verify_proof")
    /\ call.proof = out.proof
    /\ call.T = out.T
    /\ call.recursion_level = out.proof[2]

\* C12: the proof generated from a completed engine is accepted by
\* verify_proof when given |D|, the default generator, the engine's
\* iteration count and the recursion level of the proof.
C12_ProverVerifierLaw == VerifiedGenuine => ret = "true"

\* a genuine proof whose form is not the identity and has a positive middle
\* coefficient is accepted
C12_Witness ==
    /\ VerifiedGenuine /\ ret = "true"
    /\ Coeffs(ElementOf(<<ParseProof(call.proof).a, ParseProof(call.proof).b,
                          ParseProof(call.proof).c>>, discriminant))[1] > 1

\* the header checks passed and l and the proof form were read from the blob
Parsed(blob, T, recursion_level) ==
    /\ Len(blob) >= 10
    /\ HeaderOk(blob, T, recursion_level)
    /\ ParseProof(blob).ok

\* the challenge prime the Fiat-Shamir derivation gives for the verifier's
\* discriminant bytes and iteration count
DerivedChallenge(disc_bytes, T) ==
    LET D == -BytesToInt(disc_bytes) IN
    ChallengePrime(D, generator(D), SquareN(generator(D), T), T)

\* C13: verify_proof checks the equation with the challenge prime it derives
\* itself from (D, x, y, T): a blob that parses and carries another l is
\* rejected, also when its form is x^(2^T div l) for the l it carries.
C13_ChallengeRecomputed ==
    (/\ Returned("verify_proof")
     /\ Parsed(call.proof, call.T, call.recursion_level)
     /\ ParseProof(call.proof).l # DerivedChallenge(call.bytes, call.T))
        => ret = "false"

\* the version byte, the recursion level byte or the 8 bytes of T of the
\* blob differ from 2 and from the claimed values
HeaderMismatch(blob, T, recursion_level) ==
    \/ Len(blob) >= 1 /\ blob[1] # 2
    \/ Len(blob) >= 2 /\ blob[2] # recursion_level
    \/ Len(blob) >= 10 /\ SubSeq(blob, 3, 10) # U64Bytes(T)

\* C14: verify_proof returns false whenever the version byte of the blob is
\* not 2, its recursion level byte is not the claimed level or its 8-byte T
\* is not the claimed T, whatever the rest of the blob holds.
C14_HeaderMismatchRejected ==
    (/\ Returned("verify_proof")
     /\ HeaderMismatch(call.proof, call.T, call.recursion_level))
        => ret = "false"

\* a blob that is accepted as generated is rejected once its version byte
\* is changed
C14_Witness ==
    /\ Returned("verify_proof") /\ ret = "false"
    /\ verify_proof(call.bytes, out.proof, call.T, call.recursion_level) = "true"
    /\ call.proof = [out.proof EXCEPT ![1] = 3]

\* C15: verify_proof returns false for every strict prefix of a blob
\* generate_proof produced, and reads no byte past the end of the prefix.
C15_TruncationRejected ==
    (/\ Returned("verify_proof")
     /\ call.proof \in Truncations(out.proof))
        => /\ ret = "false"
           /\ LastByteRead(call.proof, call.T, call.recursion_level) <= Len(call.proof)

\* a blob that is accepted as generated is rejected when its last byte is
\* cut off: the header passes and the read of the third coefficient fails
C15_Witness ==
    /\ Returned("verify_proof") /\ ret = "false"
    /\ verify_proof(call.bytes, out.proof, call.T, call.recursion_level) = "true"
    /\ call.proof = SubSeq(out.proof, 1, Len(out.proof) - 1)
    /\ HeaderOk(call.proof, call.T, call.recursion_level)

(* ------------------- claims on checkpoint records (Spec) ---------------- *)
\* C21: the 8 bytes after the version byte of every version-3 checkpoint
\* blob encode the absolute iteration of the record that holds the blob.
C21_BlobHoldsAbsoluteIteration ==
    \A k \in 1 .. Len(checkpoint_proofs) :
        checkpoint_proofs[k].version = 3 =>
            SubSeq(serialized_proof(checkpoint_proofs[k]), 2, 9)
                = U64Bytes(checkpoint_proofs[k].iteration)

\* the blob of the first segment does hold its record's iteration
C21_Witness ==
    /\ Len(checkpoint_proofs) >= 2
    /\ checkpoint_proofs[2].version = 3
    /\ SubSeq(serialized_proof(checkpoint_proofs[2]), 2, 9)
           = U64Bytes(checkpoint_proofs[2].iteration)

\* the worker is inside the try block of a run, after its locals are set
WorkerInLoop ==
    wpc \in {"w_outer", "w_inner", "w_square", "w_checkpoint", "w_batch", "w_final"}

\* record k is a proof record for the segment from record k-1 to record k
ChainedToPredecessor(k) ==
    LET cp == checkpoint_proofs[k]
        prev == checkpoint_proofs[k - 1]
    IN  /\ cp.version = 3
        /\ cp.x = prev.checkpoint_form
        /\ cp.blob_iter = cp.iteration - prev.iteration

\* the proof form of record k of the list satisfies the verification
\* equation of its segment: pi^l * x^(2^dt mod l) = y
ProvesSegment(proofs, k) ==
    LET cp == proofs[k]
        prev == proofs[k - 1]
        dt == cp.iteration - prev.iteration
        l == SegmentPrime(prev.checkpoint_form, cp.checkpoint_form, dt, cp.d)
    IN  Compose(FastPow(SegmentProofForm(cp.x, cp.checkpoint_form, cp.blob_iter,
                                         cp.d), l),
                FastPow(prev.checkpoint_form, Pow2(dt) % l)) = cp.checkpoint_form

IsCompletion(e) == e.cb = "completion"
IsProgress(e) == e.cb = "progress"
\* the completion_cb and the progress_cb invocations of the run, in order
Completions == SelectSeq(cb_log, IsCompletion)
Progress == SelectSeq(cb_log, IsProgress)

C24_CallbacksReportProgress ==
    \A k \in 1 .. Len(cb_log) :
        cb_log[k].cb \in {"progress", "completion"} =>
            cb_log[k].iterations = cb_log[k].t_cur

\* a completed run reports its T
C24_Witness ==
    /\ runs = 1 /\ state = "COMPLETED" /\ wpc = "done"
    /\ Len(Completions) = 1
    /\ Completions[1].iterations = started.T /\ Completions[1].t_cur = started.T

AtCallback ==
    \/ wpc = "w_progress_cb" /\ progress_cb # "none"
    \/ wpc \in {"w_completed_cb", "w_stopped_cb", "w_error_cb"} /\ completion_cb # "none"

\* C26: the worker calls progress_cb and completion_cb without holding the
\* mutex, so a callback that takes the mutex is never blocked by the worker
\* itself.
C26_CallbacksWithoutMutex ==
    /\ AtCallback => mutex # "worker"
    /\ \A k \in 1 .. Len(cb_log) : ~cb_log[k].locked

\* progress_cb and the completion_cb of a stopped run are called without
\* the mutex
C26_Witness ==
    /\ Len(Progress) > 0 /\ Len(Completions) = 1
    /\ Completions[1].phase = "STOPPED"
    /\ \A k \in 1 .. Len(cb_log) : ~cb_log[k].locked

\* C27: the iterations reported by the progress_cb calls of a run never
\* decrease and never exceed T.
C27_ProgressMonotone ==
    /\ \A k \in 1 .. Len(Progress) - 1 : Progress[k].iterations <= Progress[k + 1].iterations
    /\ \A k \in 1 .. Len(Progress) : Progress[k].iterations <= Progress[k].total

\* two progress calls of one run, the second with T
C27_Witness ==
    /\ Len(Progress) = 2
    /\ Progress[1].iterations < Progress[2].iterations
    /\ Progress[2].iterations = started.T

\* generate_proof or generate_proof_for_iterations has returned
ProofCallReturned ==
    Returned("generate_proof") \/ Returned("generate_proof_for_iterations")

\* C28: when generate_proof or generate_proof_for_iterations returns an
\* error, the caller's proof struct holds no data and length 0, whatever it
\* held when it was passed in.
C28_FailedProofIsEmpty ==
    ProofCallReturned /\ ret # "SUCCESS" => out.proof = <<>>

\* a failed call on a proof struct that held nothing
C28_Witness ==
    /\ ProofCallReturned /\ ret = "COMPUTATION_FAILED"
    /\ out.proof = <<>>

\* iteration counts that fill more than one of the 8 bytes
WideIterations == { 255, 256, 65535, 65536, 16777221 }

\* C29: the blob of a successful generate_proof starts with 0x02, has the
\* recursion level r at offset 1 and T as 8 big-endian bytes at offsets 2..9;
\* the struct's iterations and recursion_level are T and r, and decoding
\* the 8 bytes gives back T.
C29_ProofHeader ==
    [][cpc = "gp_build" /\ ret' = "SUCCESS" =>
         /\ Len(out'.proof) >= 10
         /\ out'.proof[1] = 2
         /\ out'.proof[2] = call.recursion_level
         /\ SubSeq(out'.proof, 3, 9) = <<0, 0, 0, 0, 0, 0, 0>>
         /\ out'.proof[10] = target_iterations
         /\ BytesToInt(SubSeq(out'.proof, 3, 10)) = target_iterations
         /\ \A n \in WideIterations :
                /\ BytesToInt(U64Bytes(n)) = n
                /\ U64Bytes(n)[8] = n % 256
                /\ U64Bytes(n)[7] = (n \div 256) % 256
                /\ U64Bytes(n)[1] = 0
         /\ out'.T = target_iterations
         /\ out'.recursion_level = call.recursion_level]_vars

\* a proof of recursion level 1 for the largest T
C29_Witness ==
    /\ ProofCallReturned /\ ret = "SUCCESS"
    /\ out.T = MaxProofT /\ out.recursion_level = 1
    /\ SubSeq(out.proof, 1, 10) = <<2, 1, 0, 0, 0, 0, 0, 0, 0, MaxProofT>>

\* the records of the list with start_iteration <= iteration <= end_iteration,
\* in list order
RecordsInRange ==
    LET InRange(cp) == /\ call.start_iteration <= cp.iteration
                       /\ cp.iteration <= call.end_iteration
    IN SelectSeq(checkpoint_proofs, InRange)

\* C30: get_checkpoint_proofs(start_t, end_t, out, cap) writes the first
\* min(cap, m) of the m records with start_t <= iteration <= end_t, in list
\* order, sets the count to the number written, writes no more than cap
\* entries and leaves the checkpoint list as it was.
C30_CheckpointQuery ==
    [][cpc = "gcp_copy" /\ cpc' = "ready" =>
         LET n == Min(call.num_proofs, Len(RecordsInRange)) IN
         /\ Len(out'.proofs) = n
         /\ \A k \in 1 .. n :
               /\ out'.proofs[k].iteration = RecordsInRange[k].iteration
               /\ out'.proofs[k].proof_data = serialized_proof(RecordsInRange[k])
               /\ out'.proofs[k].a_data =
                      ExportBytes(Coeffs(RecordsInRange[k].checkpoint_form)[1])
         /\ out'.count = n
         /\ Len(out'.proofs) <= call.num_proofs
         /\ checkpoint_proofs' = checkpoint_proofs]_vars

\* a query from iteration 2 on with room for one entry, on a list that holds
\* three records in the range: the record of iteration 2 alone is written
C30_Witness ==
    /\ Returned("get_checkpoint_proofs") /\ ret = "SUCCESS"
    /\ call.start_iteration = 2 /\ call.end_iteration = 5 /\ call.num_proofs = 1
    /\ Len(RecordsInRange) = 3
    /\ checkpoint_proofs[1].iteration = 0
    /\ out.count = 1 /\ out.proofs[1].iteration = 2

(* ------------------- claims on the mutex and the inputs ---------------- *)
\* a step of the worker while the caller holds the mutex, or a step of the
\* caller while the worker holds it
StepBesideHolder ==
    \/ mutex = "caller" /\ wpc' # wpc
    \/ mutex = "worker" /\ cpc' # cpc

\* C31: the checkpoint list and the callback settings are changed only
\* under the mutex: while one thread holds the mutex, no step of the other
\* thread changes the list or the callbacks.
C31_ChangesUnderMutex ==
    [][StepBesideHolder =>
         /\ checkpoint_proofs' = checkpoint_proofs
         /\ progress_cb' = progress_cb
         /\ completion_cb' = completion_cb]_vars

\* the caller holds the mutex to read the count of a list the worker has
\* appended to
C31_Witness ==
    /\ cpc = "cc_read" /\ mutex = "caller"
    /\ Len(checkpoint_proofs) >= 2 /\ wpc = "w_inner"

\* -|input|, minus its residue mod 4, plus 1, minus 4 if that is positive
AdjustedD(bs) ==
    LET D0 == 0 - BytesToInt(bs)
        D1 == D0 - (D0 % 4) + 1
    IN  IF D1 > 0 THEN D1 - 4 ELSE D1

\* start_with_discriminant returns in this step, past its tests of the
\* parameters and of the phase
DiscriminantStartReturns ==
    /\ call.op = "start" /\ call.kind = "discriminant"
    /\ cpc \in {"st_setup", "st_spawn"} /\ cpc' = "ready"

BigEndian32(b) ==
    IF b[1] >= 128
    THEN (BytesToInt(<< b[1] - 128, b[2], b[3], b[4] >>) - 1073741824) - 1073741824
    ELSE BytesToInt(b)

\* the discriminant that belongs to the first four bytes of a challenge
DiscriminantOf(ch) == generate_discriminant(BigEndian32(SubSeq(ch, 1, 4)))

C34_InitializedOnce ==
    init_gmp_runs <= 1 /\ set_rounding_mode_runs <= 1

\* every thread has made all its calls, one after the other, and the
\* initialization ran once
C34_Witness ==
    /\ \A t \in TickThreads : tick_calls[t] = MaxTickCalls /\ tick_pc[t] = "idle"
    /\ g_initialized
    /\ init_gmp_runs = 1 /\ set_rounding_mode_runs = 1

\* C35: a status returned by get_status is a consistent snapshot: when its
\* state is COMPLETED its current_iteration equals its target_iterations.
C35_StatusSnapshot ==
    (Returned("get_status") /\ out.state = "COMPLETED") => out.iter = out.T

\* get_status on a run that had completed before the call
C35_Witness ==
    /\ Returned("get_status") /\ out.state = "COMPLETED"
    /\ out.iter = out.T /\ out.T = MaxT
    /\ wpc = "done"

\* C36: the refresh of iterations_per_second never divides by zero,
\* whatever update_interval_ms was set and whatever time has elapsed.
C36_NoDivisionByZero ==
    wpc = "w_refresh" => elapsed # 0

\* a refresh after one millisecond, with update_interval_ms = 0
C36_Witness ==
    /\ wpc = "w_refresh" /\ update_interval_ms = 0 /\ elapsed = 1

\* start_with_discriminant has accepted its bytes and is about to start the run
DiscriminantAccepted ==
    /\ call.op = "start" /\ call.kind = "discriminant"
    /\ cpc = "st_setup" /\ cpc' = "st_spawn"

\* C37: for every byte string start_with_discriminant accepts, the
\* discriminant verify_proof derives from the same bytes is the discriminant
\* the engine runs on, adjusted byte strings included.
C37_VerifierSameDiscriminant ==
    [][DiscriminantAccepted =>
         VerifierDiscriminant(call.bytes) = discriminant']_vars

\* a run accepted on bytes that needed no adjustment: engine and verifier
\* both take -47
C37_Witness ==
    /\ cpc = "st_spawn" /\ call.kind = "discriminant" /\ call.bytes = <<47>>
    /\ discriminant = -47 /\ VerifierDiscriminant(call.bytes) = discriminant

\* lines 630-692: the proof form generate_proof computes from the context,
\* x^(2^T div l) for the challenge prime l
GeneratedProofForm ==
    FastPow(initial_form,
            Pow2(target_iterations)
              \div ChallengePrime(discriminant, initial_form, final_form,
                                  target_iterations))

\* C38: the (a, b, c) verify_proof parses from the blob of a successful
\* generate_proof are the coefficients of the proof form generate_proof
\* wrote, a negative b included.
C38_FormRoundTrip ==
    [][cpc = "gp_build" /\ ret' = "SUCCESS" =>
         LET pr == ParseProof(out'.proof) IN
         /\ pr.ok
         /\ << pr.a, pr.b, pr.c >> = Coeffs(GeneratedProofForm)]_vars

\* a proof form with a positive middle coefficient, other than the
\* identity, has been written and parses back to itself
C38_Witness ==
    /\ Returned("generate_proof") /\ ret = "SUCCESS"
    /\ Coeffs(GeneratedProofForm)[1] > 1 /\ Coeffs(GeneratedProofForm)[2] > 0
    /\ ParseProof(out.proof).ok
    /\ << ParseProof(out.proof).a, ParseProof(out.proof).b,
          ParseProof(out.proof).c >> = Coeffs(GeneratedProofForm)

\* get_result_form or generate_proof makes its test of the phase in this step
AtPhaseTest == cpc \in {"rf_check", "gp_check"} /\ cpc' # cpc

\* get_result_form or generate_proof returns CPU_VDF_SUCCESS in this step
ResultCallSucceeds ==
    /\ call.op \in {"get_result_form", "generate_proof"}
    /\ cpc # "ready" /\ cpc' = "ready" /\ ret' = "SUCCESS"

\* C39: get_result_form and generate_proof return ComputationFailed and
\* leave their output as it was whenever the phase is not Completed, and
\* they return success only while the phase is Completed.
C39_OnlyCompletedSucceeds ==
    /\ [][AtPhaseTest /\ state # "COMPLETED" =>
             /\ cpc' = "ready" /\ ret' = "COMPUTATION_FAILED"
             /\ out' = out]_vars
    /\ [][ResultCallSucceeds => state = "COMPLETED"]_vars

\* get_result_form succeeds on the completed first run and hands out its
\* final form
C39_Witness ==
    /\ Returned("get_result_form") /\ ret = "SUCCESS"
    /\ state = "COMPLETED" /\ runs = 1 /\ wpc = "done"
    /\ out.form = final_form

\* the number of bits of |n|
RECURSIVE BitLength(_)
BitLength(n) == IF n = 0 THEN 0 ELSE 1 + BitLength(Abs(n) \div 2)

\* create_discriminant returns in this step, and the discriminant generated
\* for its challenge has exactly discriminant_size_bits bits
CreateDiscriminantReturns ==
    /\ cpc = "cd_run" /\ cpc' = "ready"
    /\ BitLength(generate_discriminant(ChallengeSeed(call.bytes))) = call.bits

\* C40: create_discriminant writes at most discriminant_out_size bytes and
\* returns the number of bytes it wrote, for every discriminant_size_bits,
\* multiples of 8 or not, when the discriminant has exactly that many bits.
C40_WritesWithinBuffer ==
    [][CreateDiscriminantReturns =>
         IF ret' = "COUNT"
         THEN /\ Len(out'.bytes) <= call.out_size
              /\ out'.count = Len(out'.bytes)
         ELSE out' = out]_vars

\* a discriminant of 6 bits written into a buffer of one byte
C40_Witness ==
    /\ Returned("create_discriminant") /\ ret = "COUNT"
    /\ call.bits = 6 /\ call.out_size = 1
    /\ out.bytes = <<47>> /\ out.count = 1

====
